---- MODULE Spec2Model ----
(***************************************************************************)
(* A model of the Polar knowledge base (polar-core/src/kb.rs) and of the   *)
(* load protocol of polar-core/src/polar.rs.                               *)
(*                                                                         *)
(* The knowledge base is one record, kb, whose fields are the fields of    *)
(* struct KnowledgeBase.  Every operation of the code is an operator from  *)
(* a knowledge base (and the operation's arguments) to the knowledge base  *)
(* after the call and the value the call returns; the actions apply these  *)
(* operators to the variable kb and record the returned value in ret.      *)
(***************************************************************************)
EXTENDS Integers, Sequences, FiniteSets, TLC

VARIABLES
    kb,         \* the KnowledgeBase behind Polar.kb
    ret,        \* the last call: its name, its arguments and what it returned
    loaded_ok,  \* history: a Polar::load has returned Ok since the last clear_rules
    poisoned,   \* the RwLock around the knowledge base is poisoned
    threads,    \* the threads that share the Polar: who holds the RwLock, and
                \* where each thread stands in its call
    query       \* a Query: its runnable stack, its VM and its done flag

vars == <<kb, ret, loaded_ok, poisoned, threads, query>>

(* No thread but the caller's, and no query. *)
NoThreads == [lock |-> 0]

NoQuery == [done |-> FALSE]

----------------------------------------------------------------------------
(* Finite maps (HashMap) as functions on a finite domain. *)

EmptyMap == [x \in {} |-> 0]

Put(m, k, v) == [x \in DOMAIN m \cup {k} |-> IF x = k THEN v ELSE m[x]]

Range(s) == {s[i] : i \in DOMAIN s}

(* Option<T>: None is the empty sequence, Some(v) the sequence <<v>>. *)
None == <<>>

Some(v) == <<v>>

(* PolarResult<T>. A message is the sequence of the pieces format! joins. *)
Ok(v) == [ok |-> TRUE, val |-> v]

Err(kind, msg) == [ok |-> FALSE, kind |-> kind, msg |-> msg]

----------------------------------------------------------------------------
(* Terms (Value), patterns, parameters and rules. *)

ACTOR_UNION_NAME == "Actor"

RESOURCE_UNION_NAME == "Resource"

ExternalInstance(instance_id) == [t |-> "ExternalInstance", instance_id |-> instance_id]

StringV(s) == [t |-> "String", s |-> s]

IntegerV(n) == [t |-> "Integer", n |-> n]

FloatV(n) == [t |-> "Float", n |-> n]

BooleanV(b) == [t |-> "Boolean", b |-> b]

ListV(elems) == [t |-> "List", elems |-> elems]

DictionaryV(fields) == [t |-> "Dictionary", fields |-> fields]

Variable(name) == [t |-> "Variable", name |-> name]

RestVariable(name) == [t |-> "RestVariable", name |-> name]

(* Pattern::Instance(InstanceLiteral { tag, fields }) and Pattern::Dictionary. *)
InstanceLiteral(tag, fields) == [p |-> "Instance", tag |-> tag, fields |-> fields]

DictionaryPattern(fields) == [p |-> "Dictionary", fields |-> fields]

PatternV(pattern) == [t |-> "Pattern", pattern |-> pattern]

(* instance!(tag): an instance pattern without fields. *)
instance(tag) == PatternV(InstanceLiteral(tag, EmptyMap))

Parameter(parameter, specializer) ==
    [parameter |-> parameter, specializer |-> specializer]

(* The forms of the rule! macro: a bare variable, a variable with a        *)
(* specializer, a bare constant.                                           *)
ParamVar(name) == Parameter(Variable(name), None)

ParamSpec(name, specializer) == Parameter(Variable(name), Some(specializer))

ParamValue(value) == Parameter(value, None)

(* The terms of a rule body: a call of a rule, a dot lookup. *)
Call(name) == [t |-> "Call", name |-> name]

Dot(object, field) == [t |-> "Dot", object |-> object, field |-> field]

(* A rule.  The body is a conjunction, kept as the sequence of its terms;   *)
(* a rule type has the empty conjunction as its body.                      *)
Rule(name, params, body, required) ==
    [name |-> name, params |-> params, body |-> body, required |-> required]

(* has_rest_var: the list contains a rest variable. *)
has_rest_var(list) ==
    \E i \in DOMAIN list : list[i].t = "RestVariable"

(* RuleParamMatch. *)
MatchTrue == [m |-> TRUE, msg |-> <<>>]

MatchFalse(msg) == [m |-> FALSE, msg |-> msg]

(* A panic (unreachable!) unwinds through every caller that propagates an   *)
(* error with `?`, and through those that handle errors as well.           *)
Panic(msg) == [ok |-> FALSE, kind |-> "panic", msg |-> msg]

----------------------------------------------------------------------------
(* The knowledge base. *)

(* ResourceBlocks: the union members (actors, resources), the declarations *)
(* of each resource block (roles, permissions, and relations from the name *)
(* of a relation to the related class) and its shorthand rules.            *)
EmptyResourceBlocks ==
    [actors |-> {}, resources |-> {}, declarations |-> EmptyMap,
     shorthand_rules |-> EmptyMap]

(* RuleTypes::default(): the rule types a fresh RuleTypes holds, none of    *)
(* them required.  test_default_rule_types pins them: on a fresh Polar a   *)
(* has_permission rule over strings and allow, allow_field, allow_request  *)
(* rules of another arity are invalid, and each rule the test expects to   *)
(* load is an instance of one of these rule types.                         *)
UnionRuleType(name, first, second, third) ==
    Rule(name,
         <<ParamSpec(first[1], instance(first[2])),
           ParamSpec(second, instance("String")),
           ParamSpec(third[1], instance(third[2]))>>,
         <<>>, FALSE)

DefaultRuleTypes ==
    [n \in {"has_permission", "has_role", "has_relation",
            "allow", "allow_field", "allow_request"} |->
        CASE n = "has_permission" ->
                <<UnionRuleType(n, <<"actor", ACTOR_UNION_NAME>>, "_permission",
                                <<"resource", RESOURCE_UNION_NAME>>),
                  UnionRuleType(n, <<"actor", ACTOR_UNION_NAME>>, "_permission",
                                <<"resource", ACTOR_UNION_NAME>>)>>
          [] n = "has_role" ->
                <<UnionRuleType(n, <<"actor", ACTOR_UNION_NAME>>, "_role",
                                <<"resource", RESOURCE_UNION_NAME>>),
                  UnionRuleType(n, <<"actor", ACTOR_UNION_NAME>>, "_role",
                                <<"resource", ACTOR_UNION_NAME>>)>>
          [] n = "has_relation" ->
                <<UnionRuleType(n, <<"subject", ACTOR_UNION_NAME>>, "_relation",
                                <<"object", ACTOR_UNION_NAME>>),
                  UnionRuleType(n, <<"subject", RESOURCE_UNION_NAME>>, "_relation",
                                <<"object", ACTOR_UNION_NAME>>),
                  UnionRuleType(n, <<"subject", RESOURCE_UNION_NAME>>, "_relation",
                                <<"object", RESOURCE_UNION_NAME>>),
                  UnionRuleType(n, <<"subject", ACTOR_UNION_NAME>>, "_relation",
                                <<"object", RESOURCE_UNION_NAME>>)>>
          [] n = "allow" ->
                <<Rule(n, <<ParamVar("actor"), ParamVar("_action"),
                            ParamVar("resource")>>, <<>>, FALSE)>>
          [] n = "allow_field" ->
                <<Rule(n, <<ParamVar("actor"), ParamVar("_action"),
                            ParamVar("resource"), ParamVar("_field")>>, <<>>, FALSE)>>
          [] n = "allow_request" ->
                <<Rule(n, <<ParamVar("actor"), ParamVar("_request")>>, <<>>, FALSE)>>]

NewKnowledgeBase ==
    [constants      |-> EmptyMap,
     mro            |-> EmptyMap,
     loaded_files   |-> EmptyMap,
     loaded_content |-> EmptyMap,
     rules          |-> EmptyMap,
     rule_types     |-> DefaultRuleTypes,
     sources        |-> EmptyMap,
     id_counter     |-> 1,
     inline_queries |-> <<>>,
     resource_blocks |-> EmptyResourceBlocks]

(* Counter::next: the value the counter holds, the counter advanced by one. *)
new_id(k) == [kb |-> [k EXCEPT !.id_counter = @ + 1], out |-> k.id_counter]

is_constant(k, name) == name \in DOMAIN k.constants

has_rules(k) == DOMAIN k.rules # {}

(* register_constant without the test for the union names. *)
register_constant_any_name(k, name, value) ==
    [kb |-> [k EXCEPT !.constants = Put(@, name, value)], out |-> Ok(<<>>)]

register_constant(k, name, value) ==
    IF name = ACTOR_UNION_NAME \/ name = RESOURCE_UNION_NAME
    THEN [kb |-> k,
          out |-> Err("TypeError",
                      <<"Invalid attempt to register '", name, "'. '", name,
                        "' is a built-in specializer.">>)]
    ELSE [kb |-> [k EXCEPT !.constants = Put(@, name, value)], out |-> Ok(<<>>)]

(* add_mro without the test that the class is registered. *)
add_mro_any_name(k, name, mro) ==
    [kb |-> [k EXCEPT !.mro = Put(@, name, mro)], out |-> Ok(<<>>)]

add_mro(k, name, mro) ==
    IF ~is_constant(k, name)
    THEN [kb |-> k,
          out |-> Err("InvalidState",
                      <<"Cannot add MRO for unregistered class ", name>>)]
    ELSE [kb |-> [k EXCEPT !.mro = Put(@, name, mro)], out |-> Ok(<<>>)]

(* check_file with its second and third cases in the other order. *)
check_file_contents_first(k, src, filename) ==
    LET other_file == IF src \in DOMAIN k.loaded_content
                      THEN Some(k.loaded_content[src]) ELSE None
        file_loaded == filename \in DOMAIN k.loaded_files
    IN  IF other_file # None /\ file_loaded /\ other_file[1] = filename
        THEN Err("FileLoading", <<"File ", filename, " has already been loaded.">>)
        ELSE IF other_file # None
        THEN Err("FileLoading",
                 <<"A file with the same contents as ", filename, " named ",
                   other_file[1], " has already been loaded.">>)
        ELSE IF file_loaded
        THEN Err("FileLoading",
                 <<"A file with the name ", filename,
                   ", but different contents has already been loaded.">>)
        ELSE Ok(<<>>)

(* check_file that lets a loaded filename through when the contents differ. *)
check_file_same_name(k, src, filename) ==
    IF /\ src \in DOMAIN k.loaded_content
       /\ k.loaded_content[src] = filename
       /\ filename \in DOMAIN k.loaded_files
    THEN Err("FileLoading", <<"File ", filename, " has already been loaded.">>)
    ELSE Ok(<<>>)

check_file(k, src, filename) ==
    LET other_file == IF src \in DOMAIN k.loaded_content
                      THEN Some(k.loaded_content[src]) ELSE None
        file_loaded == filename \in DOMAIN k.loaded_files
    IN  IF other_file # None /\ file_loaded /\ other_file[1] = filename
        THEN Err("FileLoading", <<"File ", filename, " has already been loaded.">>)
        ELSE IF file_loaded
        THEN Err("FileLoading",
                 <<"A file with the name ", filename,
                   ", but different contents has already been loaded.">>)
        ELSE IF other_file # None
        THEN Err("FileLoading",
                 <<"A file with the same contents as ", filename, " named ",
                   other_file[1], " has already been loaded.">>)
        ELSE Ok(<<>>)

(* Sources::add_source: the source recorded under its id. *)
sources_add_source(sources, source, src_id) == Put(sources, src_id, source)

(* add_source with the id allocated after the duplicate check. *)
add_source_id_after_check(k, source) ==
    LET chk == IF source.filename # None
               THEN check_file(k, source.src, source.filename[1])
               ELSE Ok(<<>>)
        n      == new_id(k)
        src_id == n.out
        k2     == IF source.filename # None
                  THEN [n.kb EXCEPT
                          !.loaded_content = Put(@, source.src, source.filename[1]),
                          !.loaded_files   = Put(@, source.filename[1], src_id)]
                  ELSE n.kb
    IN  IF ~chk.ok
        THEN [kb |-> k, out |-> chk]
        ELSE [kb |-> [k2 EXCEPT !.sources = Put(@, src_id, source)],
              out |-> Ok(src_id)]

add_source(k, source) ==
    LET n      == new_id(k)
        src_id == n.out
        k1     == n.kb
        chk    == IF source.filename # None
                  THEN check_file(k1, source.src, source.filename[1])
                  ELSE Ok(<<>>)
        k2     == IF source.filename # None
                  THEN [k1 EXCEPT
                          !.loaded_content = Put(@, source.src, source.filename[1]),
                          !.loaded_files   = Put(@, source.filename[1], src_id)]
                  ELSE k1
    IN  IF ~chk.ok
        THEN [kb |-> k1, out |-> chk]
        ELSE [kb |-> [k2 EXCEPT !.sources = sources_add_source(@, source, src_id)],
              out |-> Ok(src_id)]

(* clear_rules that leaves the loaded-file maps alone. *)
clear_rules_keeping_files(k) ==
    [k EXCEPT !.rules = EmptyMap,
              !.rule_types = DefaultRuleTypes,
              !.sources = EmptyMap,
              !.inline_queries = <<>>,
              !.resource_blocks = EmptyResourceBlocks]

(* clear_rules that leaves the inline queries alone and drops the constants. *)
clear_rules_dropping_constants(k) ==
    [k EXCEPT !.rules = EmptyMap,
              !.rule_types = DefaultRuleTypes,
              !.sources = EmptyMap,
              !.constants = EmptyMap,
              !.loaded_content = EmptyMap,
              !.loaded_files = EmptyMap,
              !.resource_blocks = EmptyResourceBlocks]

clear_rules(k) ==
    [k EXCEPT !.rules = EmptyMap,
              !.rule_types = DefaultRuleTypes,
              !.sources = EmptyMap,
              !.inline_queries = <<>>,
              !.loaded_content = EmptyMap,
              !.loaded_files = EmptyMap,
              !.resource_blocks = EmptyResourceBlocks]

----------------------------------------------------------------------------
(* Rule-type validation. *)

(* The orders in which one call iterates the hash maps and hash sets it     *)
(* walks: rules (the rule map), generic (the rules of each generic rule),  *)
(* required (the names of the rule-type map that hold a required rule      *)
(* type), actors and resources (the union member sets).                    *)
Perms(S) == {s \in [1..Cardinality(S) -> S] : Range(s) = S}

RequiredNames(k) ==
    {n \in DOMAIN k.rule_types :
        \E j \in 1..Len(k.rule_types[n]) : k.rule_types[n][j].required}

GenericOrders(k) ==
    {g \in [DOMAIN k.rules ->
              UNION {Perms(1..Len(k.rules[n])) : n \in DOMAIN k.rules}] :
        \A n \in DOMAIN k.rules : g[n] \in Perms(1..Len(k.rules[n]))}

Orders(k) ==
    {[rules |-> a, generic |-> g, required |-> q, actors |-> ac, resources |-> rs] :
        a \in Perms(DOMAIN k.rules), g \in GenericOrders(k),
        q \in Perms(RequiredNames(k)),
        ac \in Perms(k.resource_blocks.actors),
        rs \in Perms(k.resource_blocks.resources)}

Min(S) == CHOOSE x \in S : \A y \in S : x <= y

(* param_fields_match asking for the keys only. *)
param_fields_match_keys(type_fields, rule_fields) ==
    \A key \in DOMAIN type_fields : key \in DOMAIN rule_fields

param_fields_match(type_fields, rule_fields) ==
    \A key \in DOMAIN type_fields :
        key \in DOMAIN rule_fields /\ rule_fields[key] = type_fields[key]

get_registered_class(k, class) ==
    IF class \in DOMAIN k.constants
    THEN Ok(k.constants[class])
    ELSE Err("UnregisteredClass", <<class>>)

is_union(k, tag) == tag = ACTOR_UNION_NAME \/ tag = RESOURCE_UNION_NAME

get_union_members(k, union) ==
    IF union = ACTOR_UNION_NAME THEN k.resource_blocks.actors
    ELSE k.resource_blocks.resources

FieldsMismatch(rule_instance, index, rule_type_instance) ==
    MatchFalse(<<"Rule specializer ", ToString(rule_instance), " on parameter ",
                 ToString(index), " did not match rule type specializer ",
                 ToString(rule_type_instance),
                 " because the specializer fields did not match.">>)

(* The subclass check with the two classes exchanged: the MRO of the rule   *)
(* type's class is searched for the id of the rule's class.                *)
check_rule_type_instance_is_subclass_of_rule_instance(k, rule_instance, rule_type_instance, index) ==
    LET term == get_registered_class(k, rule_instance.tag)
    IN  IF ~term.ok THEN term
        ELSE IF term.val.t = "ExternalInstance"
        THEN IF rule_type_instance.tag \in DOMAIN k.mro
             THEN IF term.val.instance_id \notin Range(k.mro[rule_type_instance.tag])
                  THEN Ok(MatchFalse(<<"Rule specializer ", rule_instance.tag,
                                       " on parameter ", ToString(index),
                                       " must match rule type specializer ",
                                       rule_type_instance.tag>>))
                  ELSE IF ~param_fields_match(rule_type_instance.fields,
                                              rule_instance.fields)
                  THEN Ok(FieldsMismatch(rule_instance, index, rule_type_instance))
                  ELSE Ok(MatchTrue)
             ELSE Err("InvalidState",
                      <<"All registered classes must have a registered MRO. Class ",
                        rule_type_instance.tag, " does not have a registered MRO.">>)
        ELSE Panic(<<"Unregistered specializer classes should be caught before this point.">>)

check_rule_instance_is_subclass_of_rule_type_instance(k, rule_instance, rule_type_instance, index) ==
    LET term == get_registered_class(k, rule_type_instance.tag)
    IN  IF ~term.ok THEN term
        ELSE IF term.val.t = "ExternalInstance"
        THEN IF rule_instance.tag \in DOMAIN k.mro
             THEN IF term.val.instance_id \notin Range(k.mro[rule_instance.tag])
                  THEN Ok(MatchFalse(<<"Rule specializer ", rule_instance.tag,
                                       " on parameter ", ToString(index),
                                       " must match rule type specializer ",
                                       rule_type_instance.tag>>))
                  ELSE IF ~param_fields_match(rule_type_instance.fields,
                                              rule_instance.fields)
                  THEN Ok(FieldsMismatch(rule_instance, index, rule_type_instance))
                  ELSE Ok(MatchTrue)
             ELSE Err("InvalidState",
                      <<"All registered classes must have a registered MRO. Class ",
                        rule_instance.tag, " does not have a registered MRO.">>)
        ELSE Panic(<<"Unregistered specializer classes should be caught before this point.">>)

(* The loop over the members of a union: each member is checked, also after *)
(* one has matched, and the first error ends the loop.                     *)
RECURSIVE union_members_loop(_, _, _, _, _, _)
union_members_loop(k, members, rule_instance, fields, index, success) ==
    IF members = <<>> THEN Ok(success)
    ELSE LET next(r) ==
                 IF ~r.ok THEN r
                 ELSE union_members_loop(k, Tail(members), rule_instance, fields, index,
                                         success \/ r.val.m)
         IN  next(check_rule_instance_is_subclass_of_rule_type_instance(
                      k, rule_instance, InstanceLiteral(Head(members), fields), index))

UnionHint(rule_instance, index, rule_type_instance) ==
    <<"Rule specializer ", rule_instance.tag, " on parameter ", ToString(index),
      " must be a member of rule type specializer ", rule_type_instance.tag>>
    \o (IF rule_type_instance.tag = ACTOR_UNION_NAME
        THEN <<"\n\n\tPerhaps you meant to add an actor block to the top of your policy, like this:\n\n\t  actor ",
               rule_instance.tag, " {}">>
        ELSE IF rule_type_instance.tag = RESOURCE_UNION_NAME
        THEN <<"\n\n\tPerhaps you meant to add a resource block to your policy, like this:\n\n\t  resource ",
               rule_instance.tag, " { .. }">>
        ELSE <<>>)

check_pattern_param(k, ord, index, rule_pattern, rule_type_pattern) ==
    IF rule_type_pattern.p = "Instance" /\ rule_pattern.p = "Instance"
    THEN IF rule_type_pattern.tag = rule_pattern.tag
         THEN IF param_fields_match(rule_type_pattern.fields, rule_pattern.fields)
              THEN Ok(MatchTrue)
              ELSE Ok(FieldsMismatch(rule_pattern, index, rule_type_pattern))
         ELSE IF is_union(k, rule_type_pattern.tag)
         THEN IF is_union(k, rule_pattern.tag)
              THEN IF rule_pattern.tag = rule_type_pattern.tag
                   THEN IF param_fields_match(rule_type_pattern.fields,
                                              rule_pattern.fields)
                        THEN Ok(MatchTrue)
                        ELSE Ok(FieldsMismatch(rule_pattern, index, rule_type_pattern))
                   ELSE Ok(MatchFalse(<<"Rule specializer ", rule_pattern.tag,
                                        " on parameter ", ToString(index),
                                        " does not match rule type specializer ",
                                        rule_type_pattern.tag>>))
              ELSE LET members == get_union_members(k, rule_type_pattern.tag)
                       order   == IF rule_type_pattern.tag = ACTOR_UNION_NAME
                                  THEN ord.actors ELSE ord.resources
                       after(loop) ==
                           IF ~loop.ok THEN loop
                           ELSE IF ~loop.val
                           THEN Ok(MatchFalse(UnionHint(rule_pattern, index,
                                                        rule_type_pattern)))
                           ELSE IF ~param_fields_match(rule_type_pattern.fields,
                                                       rule_pattern.fields)
                           THEN Ok(FieldsMismatch(rule_pattern, index,
                                                  rule_type_pattern))
                           ELSE Ok(MatchTrue)
                   IN  after(IF rule_pattern.tag \notin members
                             THEN union_members_loop(k, order, rule_pattern,
                                      rule_type_pattern.fields, index, FALSE)
                             ELSE Ok(TRUE))
         ELSE check_rule_instance_is_subclass_of_rule_type_instance(
                  k, rule_pattern, rule_type_pattern, index)
    ELSE IF rule_type_pattern.p = "Dictionary"
    THEN \* Dictionary against Dictionary, or against the fields of an Instance
         IF param_fields_match(rule_type_pattern.fields, rule_pattern.fields)
         THEN Ok(MatchTrue)
         ELSE Ok(MatchFalse(<<"Specializer mismatch on parameter ", ToString(index),
                              ". Rule specializer fields ", ToString(rule_pattern.fields),
                              " do not match rule type specializer fields ",
                              ToString(rule_type_pattern.fields), ".">>))
    ELSE IF rule_type_pattern.tag = "Dictionary"
    THEN \* Instance tagged Dictionary against a Dictionary pattern
         IF param_fields_match(rule_type_pattern.fields, rule_pattern.fields)
         THEN Ok(MatchTrue)
         ELSE Ok(MatchFalse(<<"Specializer mismatch on parameter ", ToString(index),
                              ". Rule specializer fields ", ToString(rule_pattern.fields),
                              " do not match rule type specializer fields ",
                              ToString(rule_type_pattern.fields), ".">>))
    ELSE Ok(MatchFalse(<<"Mismatch on parameter ", ToString(index),
                         ". Rule parameter ", ToString(rule_type_pattern),
                         " does not match rule type parameter ",
                         ToString(rule_pattern), ".">>))

(* check_value_param asking that the rule-type list holds the rule list. *)
check_value_param_subset(k, index, rule_value, rule_type_value) ==
    IF rule_type_value.t = "List" /\ rule_value.t = "List"
    THEN IF has_rest_var(rule_type_value.elems)
         THEN Err("TypeError", <<"Rule types cannot contain *rest variables.">>)
         ELSE IF \A i \in 1..Len(rule_value.elems) :
                    rule_value.elems[i] \in Range(rule_type_value.elems)
         THEN Ok(MatchTrue)
         ELSE Ok(MatchFalse(<<"Invalid parameter ", ToString(index),
                              ". Rule type expected list ",
                              ToString(rule_type_value.elems), ", got list ",
                              ToString(rule_value.elems), ".">>))
    ELSE IF rule_type_value.t = "Dictionary" /\ rule_value.t = "Dictionary"
    THEN IF param_fields_match(rule_type_value.fields, rule_value.fields)
         THEN Ok(MatchTrue)
         ELSE Ok(MatchFalse(<<"Invalid parameter ", ToString(index),
                              ". Rule type expected Dictionary with fields ",
                              ToString(rule_type_value.fields),
                              ", got Dictionary with fields ",
                              ToString(rule_value.fields)>>))
    ELSE IF rule_type_value = rule_value
    THEN Ok(MatchTrue)
    ELSE Ok(MatchFalse(<<"Invalid parameter ", ToString(index), ". Rule value ",
                         ToString(rule_value), " != rule type value ",
                         ToString(rule_type_value)>>))

check_value_param(k, index, rule_value, rule_type_value) ==
    IF rule_type_value.t = "List" /\ rule_value.t = "List"
    THEN IF has_rest_var(rule_type_value.elems)
         THEN Err("TypeError", <<"Rule types cannot contain *rest variables.">>)
         ELSE IF \A i \in 1..Len(rule_type_value.elems) :
                    rule_type_value.elems[i] \in Range(rule_value.elems)
         THEN Ok(MatchTrue)
         ELSE Ok(MatchFalse(<<"Invalid parameter ", ToString(index),
                              ". Rule type expected list ",
                              ToString(rule_type_value.elems), ", got list ",
                              ToString(rule_value.elems), ".">>))
    ELSE IF rule_type_value.t = "Dictionary" /\ rule_value.t = "Dictionary"
    THEN IF param_fields_match(rule_type_value.fields, rule_value.fields)
         THEN Ok(MatchTrue)
         ELSE Ok(MatchFalse(<<"Invalid parameter ", ToString(index),
                              ". Rule type expected Dictionary with fields ",
                              ToString(rule_type_value.fields),
                              ", got Dictionary with fields ",
                              ToString(rule_value.fields)>>))
    ELSE IF rule_type_value = rule_value
    THEN Ok(MatchTrue)
    ELSE Ok(MatchFalse(<<"Invalid parameter ", ToString(index), ". Rule value ",
                         ToString(rule_value), " != rule type value ",
                         ToString(rule_type_value)>>))

(* The synthetic instance pattern a rule-side value is promoted to. *)
PromotedTags == {"String", "Integer", "Float", "Boolean", "List", "Dictionary"}

(* promote with the fields of a dictionary dropped. *)
promote_without_fields(rule_value) ==
    InstanceLiteral(rule_value.t, EmptyMap)

promote(rule_value) ==
    IF rule_value.t = "Dictionary"
    THEN InstanceLiteral("Dictionary", rule_value.fields)
    ELSE InstanceLiteral(rule_value.t, EmptyMap)

IsPattern(spec) == spec # None /\ spec[1].t = "Pattern"

(* check_param with the arm of two bare constants tried first. *)
check_param_constants_first(k, ord, index, rule_param, rule_type_param) ==
    LET tp == rule_type_param.parameter
        ts == rule_type_param.specializer
        rp == rule_param.parameter
        rs == rule_param.specializer
        \* the rule side's value: its value specializer, or its bare constant
        rule_value == IF rs # None THEN rs[1] ELSE rp
    IN  IF ts = None /\ rs = None /\ rp.t # "Variable"
        THEN check_value_param(k, index, rp, tp)
        ELSE IF tp.t = "Variable" /\ IsPattern(ts) /\ rp.t = "Variable" /\ IsPattern(rs)
        THEN check_pattern_param(k, ord, index, rs[1].pattern, ts[1].pattern)
        ELSE IF tp.t = "Variable" /\ IsPattern(ts) /\ ts[1].pattern.p = "Instance"
                /\ rp.t = "Variable" /\ rs = None
        THEN Ok(MatchFalse(<<"Parameter '", rp.name, "' expects a ", ts[1].pattern.tag,
                             " type constraint.\n\n\t", rp.name, ": ",
                             ts[1].pattern.tag>>))
        ELSE IF tp.t = "Variable" /\ ts # None /\ rp.t = "Variable" /\ rs = None
        THEN Ok(MatchFalse(<<"Invalid rule parameter ", ToString(index),
                             ". Rule type expected ", ToString(ts[1])>>))
        ELSE IF tp.t = "Variable" /\ IsPattern(ts)
                /\ ((rp.t = "Variable" /\ rs # None) \/ rs = None)
        THEN IF ts[1].pattern.p = "Instance"
             THEN IF rule_value.t \in PromotedTags
                  THEN check_pattern_param(k, ord, index, promote(rule_value),
                                           ts[1].pattern)
                  ELSE Panic(<<"Value variant ", ToString(rule_value),
                               " cannot be a specializer">>)
             ELSE IF rule_value.t = "Dictionary"
             THEN IF param_fields_match(ts[1].pattern.fields, rule_value.fields)
                  THEN Ok(MatchTrue)
                  ELSE Ok(MatchFalse(<<"Invalid parameter ", ToString(index),
                                       ". Rule type expected Dictionary with fields ",
                                       ToString(ts[1].pattern.fields),
                                       ", got dictionary with fields ",
                                       ToString(rule_value.fields), ".">>))
             ELSE Ok(MatchFalse(<<"Invalid parameter ", ToString(index),
                                  ". Rule type expected Dictionary, got ",
                                  ToString(rule_value), ".">>))
        ELSE IF tp.t = "Variable" /\ ts = None
        THEN Ok(MatchTrue)
        ELSE IF \/ tp.t = "Variable" /\ ts # None /\ rp.t = "Variable" /\ rs # None
                \/ tp.t = "Variable" /\ ts # None /\ rs = None
        THEN check_value_param(k, index, rule_value, ts[1])
        ELSE IF ts = None /\ rs = None
        THEN check_value_param(k, index, rp, tp)
        ELSE Ok(MatchFalse(<<"Invalid parameter ", ToString(index),
                             ". Rule parameter ", ToString(rule_param),
                             " does not match rule type parameter ",
                             ToString(rule_type_param)>>))

(* check_param with the arms of a rule parameter written as a bare value   *)
(* left out of the match.                                                  *)
check_param_specializers_only(k, ord, index, rule_param, rule_type_param) ==
    LET tp == rule_type_param.parameter
        ts == rule_type_param.specializer
        rp == rule_param.parameter
        rs == rule_param.specializer
        \* the rule side's value: its value specializer, or its bare constant
        rule_value == IF rs # None THEN rs[1] ELSE rp
    IN  IF tp.t = "Variable" /\ IsPattern(ts) /\ rp.t = "Variable" /\ IsPattern(rs)
        THEN check_pattern_param(k, ord, index, rs[1].pattern, ts[1].pattern)
        ELSE IF tp.t = "Variable" /\ IsPattern(ts) /\ ts[1].pattern.p = "Instance"
                /\ rp.t = "Variable" /\ rs = None
        THEN Ok(MatchFalse(<<"Parameter '", rp.name, "' expects a ", ts[1].pattern.tag,
                             " type constraint.\n\n\t", rp.name, ": ",
                             ts[1].pattern.tag>>))
        ELSE IF tp.t = "Variable" /\ ts # None /\ rp.t = "Variable" /\ rs = None
        THEN Ok(MatchFalse(<<"Invalid rule parameter ", ToString(index),
                             ". Rule type expected ", ToString(ts[1])>>))
        ELSE IF tp.t = "Variable" /\ IsPattern(ts)
                /\ (rp.t = "Variable" /\ rs # None)
        THEN IF ts[1].pattern.p = "Instance"
             THEN IF rule_value.t \in PromotedTags
                  THEN check_pattern_param(k, ord, index, promote(rule_value),
                                           ts[1].pattern)
                  ELSE Panic(<<"Value variant ", ToString(rule_value),
                               " cannot be a specializer">>)
             ELSE IF rule_value.t = "Dictionary"
             THEN IF param_fields_match(ts[1].pattern.fields, rule_value.fields)
                  THEN Ok(MatchTrue)
                  ELSE Ok(MatchFalse(<<"Invalid parameter ", ToString(index),
                                       ". Rule type expected Dictionary with fields ",
                                       ToString(ts[1].pattern.fields),
                                       ", got dictionary with fields ",
                                       ToString(rule_value.fields), ".">>))
             ELSE Ok(MatchFalse(<<"Invalid parameter ", ToString(index),
                                  ". Rule type expected Dictionary, got ",
                                  ToString(rule_value), ".">>))
        ELSE IF tp.t = "Variable" /\ ts = None
        THEN Ok(MatchTrue)
        ELSE IF tp.t = "Variable" /\ ts # None /\ rp.t = "Variable" /\ rs # None
        THEN check_value_param(k, index, rule_value, ts[1])
        ELSE IF ts = None /\ rs = None
        THEN check_value_param(k, index, rp, tp)
        ELSE Ok(MatchFalse(<<"Invalid parameter ", ToString(index),
                             ". Rule parameter ", ToString(rule_param),
                             " does not match rule type parameter ",
                             ToString(rule_type_param)>>))

check_param(k, ord, index, rule_param, rule_type_param) ==
    LET tp == rule_type_param.parameter
        ts == rule_type_param.specializer
        rp == rule_param.parameter
        rs == rule_param.specializer
        \* the rule side's value: its value specializer, or its bare constant
        rule_value == IF rs # None THEN rs[1] ELSE rp
    IN  IF tp.t = "Variable" /\ IsPattern(ts) /\ rp.t = "Variable" /\ IsPattern(rs)
        THEN check_pattern_param(k, ord, index, rs[1].pattern, ts[1].pattern)
        ELSE IF tp.t = "Variable" /\ IsPattern(ts) /\ ts[1].pattern.p = "Instance"
                /\ rp.t = "Variable" /\ rs = None
        THEN Ok(MatchFalse(<<"Parameter '", rp.name, "' expects a ", ts[1].pattern.tag,
                             " type constraint.\n\n\t", rp.name, ": ",
                             ts[1].pattern.tag>>))
        ELSE IF tp.t = "Variable" /\ ts # None /\ rp.t = "Variable" /\ rs = None
        THEN Ok(MatchFalse(<<"Invalid rule parameter ", ToString(index),
                             ". Rule type expected ", ToString(ts[1])>>))
        ELSE IF tp.t = "Variable" /\ IsPattern(ts)
                /\ ((rp.t = "Variable" /\ rs # None) \/ rs = None)
        THEN IF ts[1].pattern.p = "Instance"
             THEN IF rule_value.t \in PromotedTags
                  THEN check_pattern_param(k, ord, index, promote(rule_value),
                                           ts[1].pattern)
                  ELSE Panic(<<"Value variant ", ToString(rule_value),
                               " cannot be a specializer">>)
             ELSE IF rule_value.t = "Dictionary"
             THEN IF param_fields_match(ts[1].pattern.fields, rule_value.fields)
                  THEN Ok(MatchTrue)
                  ELSE Ok(MatchFalse(<<"Invalid parameter ", ToString(index),
                                       ". Rule type expected Dictionary with fields ",
                                       ToString(ts[1].pattern.fields),
                                       ", got dictionary with fields ",
                                       ToString(rule_value.fields), ".">>))
             ELSE Ok(MatchFalse(<<"Invalid parameter ", ToString(index),
                                  ". Rule type expected Dictionary, got ",
                                  ToString(rule_value), ".">>))
        ELSE IF tp.t = "Variable" /\ ts = None
        THEN Ok(MatchTrue)
        ELSE IF \/ tp.t = "Variable" /\ ts # None /\ rp.t = "Variable" /\ rs # None
                \/ tp.t = "Variable" /\ ts # None /\ rs = None
        THEN check_value_param(k, index, rule_value, ts[1])
        ELSE IF ts = None /\ rs = None
        THEN check_value_param(k, index, rp, tp)
        ELSE Ok(MatchFalse(<<"Invalid parameter ", ToString(index),
                             ". Rule parameter ", ToString(rule_param),
                             " does not match rule type parameter ",
                             ToString(rule_type_param)>>))

(* rule_params_match without the comparison of the numbers of parameters:  *)
(* the parameters both have are checked.                                   *)
rule_params_match_any_arity(k, ord, rule, rule_type) ==
    LET n == IF Len(rule.params) < Len(rule_type.params)
             THEN Len(rule.params) ELSE Len(rule_type.params)
        collect(results) ==
            LET errors == {i \in DOMAIN results : ~results[i].ok}
                failed == {i \in DOMAIN results : ~results[i].val.m}
            IN  IF errors # {} THEN results[Min(errors)]
                ELSE IF failed = {} THEN Ok(MatchTrue)
                ELSE Ok(MatchFalse(results[Min(failed)].val.msg))
    IN  collect([i \in 1..n |->
                    check_param(k, ord, i, rule.params[i], rule_type.params[i])])

(* rule_params_match that stops at the first parameter that does not match *)
(* or whose check ends in an error.                                        *)
RECURSIVE params_until_failure(_, _, _, _, _)
params_until_failure(k, ord, rule, rule_type, i) ==
    IF i > Len(rule.params) THEN Ok(MatchTrue)
    ELSE LET next(r) ==
                 IF ~r.ok \/ ~r.val.m THEN r
                 ELSE params_until_failure(k, ord, rule, rule_type, i + 1)
         IN  next(check_param(k, ord, i, rule.params[i], rule_type.params[i]))

rule_params_match_until_failure(k, ord, rule, rule_type) ==
    IF Len(rule.params) # Len(rule_type.params)
    THEN Ok(MatchFalse(<<"Different number of parameters. Rule has ",
                         ToString(Len(rule.params)),
                         " parameter(s) but rule type has ",
                         ToString(Len(rule_type.params)), ".">>))
    ELSE params_until_failure(k, ord, rule, rule_type, 1)

(* The parameters are checked in order up to the first error (collect into  *)
(* a PolarResult); without an error, the reason is that of the first       *)
(* parameter that does not match.                                          *)
rule_params_match(k, ord, rule, rule_type) ==
    IF Len(rule.params) # Len(rule_type.params)
    THEN Ok(MatchFalse(<<"Different number of parameters. Rule has ",
                         ToString(Len(rule.params)),
                         " parameter(s) but rule type has ",
                         ToString(Len(rule_type.params)), ".">>))
    ELSE LET collect(results) ==
                 LET errors == {i \in DOMAIN results : ~results[i].ok}
                     failed == {i \in DOMAIN results : ~results[i].val.m}
                 IN  IF errors # {} THEN results[Min(errors)]
                     ELSE IF failed = {} THEN Ok(MatchTrue)
                     ELSE Ok(MatchFalse(results[Min(failed)].val.msg))
         IN  collect([i \in 1..Len(rule.params) |->
                         check_param(k, ord, i, rule.params[i], rule_type.params[i])])

(* A validation error about a rule or a rule type. set_error_context adds   *)
(* the source position, which the model leaves out.                        *)
RuleError(kind, rule, msg) == [ok |-> FALSE, kind |-> kind, rule |-> rule, msg |-> msg]

(* check_rule_against_types asking for a match with every rule type of the *)
(* name instead of with one of them.                                       *)
check_rule_against_types_all(k, ord, rule, types) ==
    LET collect(results) ==
            LET errors == {j \in DOMAIN results : ~results[j].ok}
            IN  IF errors # {} THEN results[Min(errors)]
                ELSE IF \A j \in DOMAIN results : results[j].val.m THEN Ok(<<>>)
                ELSE RuleError("InvalidRule", rule,
                               [j \in DOMAIN results |->
                                   <<types[j], results[j].val.msg>>])
    IN  collect([j \in 1..Len(types) |-> rule_params_match(k, ord, rule, types[j])])

(* One rule against the rule types of its name: an error of a check ends    *)
(* it; otherwise one rule type has to match.                               *)
check_rule_against_types(k, ord, rule, types) ==
    LET collect(results) ==
            LET errors == {j \in DOMAIN results : ~results[j].ok}
            IN  IF errors # {} THEN results[Min(errors)]
                ELSE IF \E j \in DOMAIN results : results[j].val.m THEN Ok(<<>>)
                ELSE RuleError("InvalidRule", rule,
                               [j \in DOMAIN results |->
                                   <<types[j], results[j].val.msg>>])
    IN  collect([j \in 1..Len(types) |-> rule_params_match(k, ord, rule, types[j])])

(* The rules of a generic rule in the order ord.generic walks them. *)
RulesInOrder(k, ord, name) ==
    [i \in 1..Len(k.rules[name]) |-> k.rules[name][ord.generic[name][i]]]

RECURSIVE Flatten(_)
Flatten(seqs) == IF seqs = <<>> THEN <<>> ELSE Head(seqs) \o Flatten(Tail(seqs))

(* Phase A visits the rules whose name has rule types. *)
RuleVisits(k, ord) ==
    Flatten([i \in 1..Len(ord.rules) |->
                IF ord.rules[i] \in DOMAIN k.rule_types
                THEN RulesInOrder(k, ord, ord.rules[i]) ELSE <<>>])

RECURSIVE validate_rules_match_types(_, _, _)
validate_rules_match_types(k, ord, visits) ==
    IF visits = <<>> THEN Ok(<<>>)
    ELSE LET next(r) ==
                 IF ~r.ok THEN r ELSE validate_rules_match_types(k, ord, Tail(visits))
         IN  next(check_rule_against_types(k, ord, Head(visits),
                                           k.rule_types[Head(visits).name]))

(* RuleTypes::required_rule_types in the order ord.required walks the map. *)
required_rule_types(k, ord) ==
    Flatten([i \in 1..Len(ord.required) |->
                SelectSeq(k.rule_types[ord.required[i]], LAMBDA rt : rt.required)])

(* Phase B, one required rule type: the rules of its name are tried until   *)
(* one matches; an error of a check ends it.                               *)
RECURSIVE find_implementation(_, _, _, _)
find_implementation(k, ord, rules, rule_type) ==
    IF rules = <<>> THEN Ok(FALSE)
    ELSE LET next(r) ==
                 IF ~r.ok THEN r
                 ELSE IF r.val.m THEN Ok(TRUE)
                 ELSE find_implementation(k, ord, Tail(rules), rule_type)
         IN  next(rule_params_match(k, ord, Head(rules), rule_type))

RECURSIVE validate_required_rule_types(_, _, _)
validate_required_rule_types(k, ord, required) ==
    IF required = <<>> THEN Ok(<<>>)
    ELSE LET rule_type == Head(required)
             next(found) ==
                 IF ~found.ok THEN found
                 ELSE IF ~found.val
                 THEN RuleError("MissingRequiredRule", rule_type, <<>>)
                 ELSE validate_required_rule_types(k, ord, Tail(required))
         IN  next(IF rule_type.name \in DOMAIN k.rules
                  THEN find_implementation(k, ord,
                           RulesInOrder(k, ord, rule_type.name), rule_type)
                  ELSE Ok(FALSE))

validate_rule_types(k, ord) ==
    LET next(a) ==
            IF ~a.ok THEN a
            ELSE validate_required_rule_types(k, ord, required_rule_types(k, ord))
    IN  next(validate_rules_match_types(k, ord, RuleVisits(k, ord)))

(* Diagnostics. *)
DiagError(e) == [level |-> "Error", e |-> e]

DiagWarning(w) == [level |-> "Warning", e |-> w]

is_error(d) == d.level = "Error"

HasError(diagnostics) == \E i \in DOMAIN diagnostics : is_error(diagnostics[i])

(* check_undefined_rule_calls: an error for every call, in the body of a    *)
(* rule, of a rule name the knowledge base holds no rule for.              *)
check_undefined_rule_calls(k, ord) ==
    LET calls == Flatten([i \in 1..Len(ord.rules) |->
                    Flatten([j \in 1..Len(k.rules[ord.rules[i]]) |->
                                RulesInOrder(k, ord, ord.rules[i])[j].body])])
        undefined == SelectSeq(calls, LAMBDA c : c.t = "Call" /\ c.name \notin DOMAIN k.rules)
    IN  [i \in 1..Len(undefined) |->
            DiagError(Err("UndefinedRuleCall",
                          <<"Call to undefined rule ", undefined[i].name>>))]

(* validate_rules with the two validations in the other order. *)
validate_rules_calls_first(k, ord) ==
    LET diagnostics(types) ==
            IF ~types.ok /\ types.kind = "panic" THEN types
            ELSE Ok(check_undefined_rule_calls(k, ord)
                    \o (IF ~types.ok THEN <<DiagError(types)>> ELSE <<>>))
    IN  diagnostics(validate_rule_types(k, ord))

(* validate_rules: the diagnostics, or the panic that ends the call. *)
validate_rules(k, ord) ==
    LET diagnostics(types) ==
            IF ~types.ok /\ types.kind = "panic" THEN types
            ELSE Ok((IF ~types.ok THEN <<DiagError(types)>> ELSE <<>>)
                    \o check_undefined_rule_calls(k, ord))
    IN  diagnostics(validate_rule_types(k, ord))

----------------------------------------------------------------------------
(* Resource blocks. *)

(* ResourceBlocks::relation_tuples: (subject, name, object) for the        *)
(* relation `name: subject` declared in the block of `object`.             *)
relation_tuples(k) ==
    LET d == k.resource_blocks.declarations
    IN  UNION {{<<d[object].relations[name], name, object>> :
                    name \in DOMAIN d[object].relations} : object \in DOMAIN d}

has_roles(k) ==
    \E r \in DOMAIN k.resource_blocks.declarations :
        k.resource_blocks.declarations[r].roles # {}

(* ResourceBlocks::get_relation_type_in_resource_block *)
get_relation_type_in_resource_block(k, relation, resource) ==
    IF /\ resource \in DOMAIN k.resource_blocks.declarations
       /\ relation \in DOMAIN k.resource_blocks.declarations[resource].relations
    THEN Ok(k.resource_blocks.declarations[resource].relations[relation])
    ELSE Err("ResourceBlock", <<"Undeclared relation ", relation>>)

(* ResourceBlock::add_to_kb: the block merged into the resource-block      *)
(* store; a second block for the same resource is an error.                *)
add_to_kb(k, block) ==
    IF block.resource \in DOMAIN k.resource_blocks.declarations
    THEN [kb |-> k,
          out |-> <<Err("ResourceBlock",
                        <<"Duplicate declaration of ", block.resource>>)>>]
    ELSE [kb |-> [k EXCEPT
                    !.resource_blocks.actors =
                        IF block.keyword = "actor" THEN @ \cup {block.resource} ELSE @,
                    !.resource_blocks.resources =
                        IF block.keyword = "resource" THEN @ \cup {block.resource} ELSE @,
                    !.resource_blocks.declarations =
                        Put(@, block.resource,
                            [roles |-> block.roles, permissions |-> block.permissions,
                             relations |-> block.relations]),
                    !.resource_blocks.shorthand_rules =
                        Put(@, block.resource, block.shorthand_rules)],
          out |-> <<>>]

(* The rule name a declared term stands for in a rewritten shorthand rule. *)
DeclarationKind(k, resource, term) ==
    LET d == k.resource_blocks.declarations[resource]
    IN  IF term \in d.permissions THEN Some("has_permission")
        ELSE IF term \in d.roles THEN Some("has_role")
        ELSE IF term \in DOMAIN d.relations THEN Some("has_relation")
        ELSE None

(* ShorthandRule::as_rule: `head if implier;` becomes a rule over the       *)
(* resource of the block, `head if implier on relation;` one that also     *)
(* traverses the relation to the related resource.                         *)
as_rule(k, resource, shorthand_rule) ==
    LET head == DeclarationKind(k, resource, shorthand_rule.head)
        related == IF shorthand_rule.on = None THEN Ok(resource)
                   ELSE get_relation_type_in_resource_block(k, shorthand_rule.on[1],
                                                            resource)
        implier == IF related.ok /\ related.val \in DOMAIN k.resource_blocks.declarations
                   THEN DeclarationKind(k, related.val, shorthand_rule.implier)
                   ELSE None
    IN  IF head = None \/ ~related.ok \/ implier = None
        THEN Err("ResourceBlock", <<"Undeclared term in shorthand rule of ", resource>>)
        ELSE Ok(Rule(head[1],
                     <<ParamSpec("actor", instance(ACTOR_UNION_NAME)),
                       ParamValue(StringV(shorthand_rule.head)),
                       ParamSpec("resource", instance(resource))>>,
                     (IF shorthand_rule.on = None THEN <<>>
                      ELSE <<Call("has_relation")>>) \o <<Call(implier[1])>>,
                     FALSE))

add_rule(k, rule) ==
    [k EXCEPT !.rules =
        Put(@, rule.name,
            (IF rule.name \in DOMAIN @ THEN @[rule.name] ELSE <<>>) \o <<rule>>)]

add_rule_type(k, rule_type) ==
    [k EXCEPT !.rule_types =
        Put(@, rule_type.name,
            (IF rule_type.name \in DOMAIN @ THEN @[rule_type.name] ELSE <<>>)
                \o <<rule_type>>)]

RECURSIVE add_rules(_, _)
add_rules(k, rules) ==
    IF rules = <<>> THEN k ELSE add_rules(add_rule(k, Head(rules)), Tail(rules))

RECURSIVE add_rule_types(_, _)
add_rule_types(k, rule_types) ==
    IF rule_types = <<>> THEN k
    ELSE add_rule_types(add_rule_type(k, Head(rule_types)), Tail(rule_types))

check_that_resource_block_relations_are_registered(k, tuples) ==
    LET missing == SelectSeq(tuples, LAMBDA tu : ~get_registered_class(k, tu[1]).ok)
    IN  [i \in 1..Len(missing) |-> get_registered_class(k, missing[i][1])]

(* rewrite_shorthand_rules; blocks is the order in which the map of         *)
(* shorthand rules is walked, tuples that of the relation tuples.          *)
rewrite_shorthand_rules(k, blocks, tuples) ==
    LET collect(results) ==
            LET ok     == SelectSeq(results, LAMBDA r : r.ok)
                rules  == [i \in 1..Len(ok) |-> ok[i].val]
                errors == check_that_resource_block_relations_are_registered(k, tuples)
                          \o SelectSeq(results, LAMBDA r : ~r.ok)
            IN  [kb |-> IF errors = <<>> THEN add_rules(k, rules) ELSE k,
                 out |-> errors]
    IN  collect(Flatten([i \in 1..Len(blocks) |->
                    [j \in 1..Len(k.resource_blocks.shorthand_rules[blocks[i]]) |->
                        as_rule(k, blocks[i],
                                k.resource_blocks.shorthand_rules[blocks[i]][j])]]))

(* The relation tuples a shorthand rule of the block of `object` marks      *)
(* as required.                                                            *)
TraversedTuples(k, object, shorthand_rule) ==
    IF shorthand_rule.on # None
    THEN LET subject == get_relation_type_in_resource_block(k, shorthand_rule.on[1],
                                                            object)
         IN  IF ~subject.ok THEN {}
             ELSE {<<subject.val, shorthand_rule.on[1], object>>} \cup
                  (LET related_subject ==
                           get_relation_type_in_resource_block(
                               k, shorthand_rule.implier, subject.val)
                   IN  IF related_subject.ok
                       THEN {<<related_subject.val, shorthand_rule.implier, subject.val>>}
                       ELSE {})
    ELSE LET subject == get_relation_type_in_resource_block(k, shorthand_rule.implier,
                                                            object)
         IN  IF subject.ok THEN {<<subject.val, shorthand_rule.implier, object>>} ELSE {}

(* rule_types_to_create with the advisory marking inserted last. *)
rule_types_to_create_advisory_last(k) ==
    LET sr == k.resource_blocks.shorthand_rules
        required == UNION {UNION {TraversedTuples(k, object, sr[object][j]) :
                                    j \in DOMAIN sr[object]} : object \in DOMAIN sr}
    IN  [tu \in relation_tuples(k) \cup required |->
            tu \in required /\ tu \notin relation_tuples(k)]

rule_types_to_create(k) ==
    LET sr == k.resource_blocks.shorthand_rules
        required == UNION {UNION {TraversedTuples(k, object, sr[object][j]) :
                                    j \in DOMAIN sr[object]} : object \in DOMAIN sr}
    IN  [tu \in relation_tuples(k) \cup required |-> tu \in required]

(* create_resource_specific_rule_types; created is the order in which the  *)
(* map of rule types to create is walked.                                  *)
create_resource_specific_rule_types(k, created) ==
    LET to_create == rule_types_to_create(k)
        relation_types ==
            [i \in 1..Len(created) |->
                Rule("has_relation",
                     <<ParamSpec("subject", instance(created[i][1])),
                       ParamValue(StringV(created[i][2])),
                       ParamSpec("object", instance(created[i][3]))>>,
                     <<>>, to_create[created[i]])]
        role_types ==
            IF has_roles(k)
            THEN <<Rule("has_role",
                        <<ParamSpec("actor", instance(ACTOR_UNION_NAME)),
                          ParamSpec("role", instance("String")),
                          ParamSpec("resource", instance(RESOURCE_UNION_NAME))>>,
                        <<>>, TRUE)>>
            ELSE <<>>
    IN  add_rule_types(k, relation_types \o role_types)

----------------------------------------------------------------------------
(* The load protocol (Polar::diagnostic_load, Polar::load). *)

MULTIPLE_LOAD_ERROR_MSG ==
    <<"Cannot load additional Polar code -- all Polar code must be loaded at the same time.">>

Source(src, filename) == [src |-> src, filename |-> filename]

RuleLine(rule) == [line |-> "Rule", rule |-> rule]

QueryLine(term) == [line |-> "Query", term |-> term]

RuleTypeLine(rule_type) == [line |-> "RuleType", rule |-> rule_type]

ResourceBlockLine(keyword, resource, roles, permissions, relations, shorthand_rules) ==
    [line |-> "ResourceBlock",
     block |-> [keyword |-> keyword, resource |-> resource, roles |-> roles,
                permissions |-> permissions, relations |-> relations,
                shorthand_rules |-> shorthand_rules]]

(* parser::parse_lines on the policies the model loads: the lines of the    *)
(* policy in the order they are written, or a parse error.                 *)
parse_lines(src) ==
    CASE src = "f();" ->
            Ok(<<RuleLine(Rule("f", <<>>, <<>>, FALSE))>>)
      [] src = "g();" ->
            Ok(<<RuleLine(Rule("g", <<>>, <<>>, FALSE))>>)
      [] src = "f() if g();" ->
            Ok(<<RuleLine(Rule("f", <<>>, <<Call("g")>>, FALSE))>>)
      [] src = "type f(x); ?= f(1);" ->
            Ok(<<RuleTypeLine(Rule("f", <<ParamVar("x")>>, <<>>, FALSE)),
                 QueryLine(Call("f"))>>)
      [] src = "allow('leina', 'food');" ->
            Ok(<<RuleLine(Rule("allow", <<ParamValue(StringV("leina")),
                                          ParamValue(StringV("food"))>>,
                               <<>>, FALSE))>>)
      [] src = "type f(x, x.y);" ->
            Ok(<<RuleTypeLine(Rule("f", <<ParamVar("x"),
                                          ParamValue(Dot(Variable("x"), "y"))>>,
                                   <<>>, FALSE))>>)
      [] src = "actor User {} has_permission('leina', 'eat', 'food');" ->
            Ok(<<ResourceBlockLine("actor", "User", {}, {}, EmptyMap, <<>>),
                 RuleLine(Rule("has_permission",
                               <<ParamValue(StringV("leina")), ParamValue(StringV("eat")),
                                 ParamValue(StringV("food"))>>, <<>>, FALSE))>>)
      [] src = "actor User {}" ->
            Ok(<<ResourceBlockLine("actor", "User", {}, {}, EmptyMap, <<>>)>>)
      [] OTHER -> Err("ParseError", <<"unexpected end of input">>)

(* rewrite_rule: a dot lookup in the head moves into the body, a fresh      *)
(* variable taking its place (the number gensym gives it is left out).     *)
rewrite_rule(rule) ==
    LET lookups == SelectSeq([i \in DOMAIN rule.params |-> rule.params[i].parameter],
                             LAMBDA v : v.t = "Dot")
    IN  [rule EXCEPT
            !.params = [i \in DOMAIN rule.params |->
                          IF rule.params[i].parameter.t = "Dot"
                          THEN [rule.params[i] EXCEPT !.parameter = Variable("_value")]
                          ELSE rule.params[i]],
            !.body = @ \o lookups]

(* check_singletons, check_ambiguous_precedence: no rule of the policies    *)
(* above has a singleton variable or mixes `and` and `or`.                 *)
check_singletons(rule) == <<>>

check_ambiguous_precedence(rule) == <<>>

load_line(k, line) ==
    IF line.line = "Rule"
    THEN [kb |-> add_rule(k, rewrite_rule(line.rule)),
          out |-> check_singletons(line.rule) \o check_ambiguous_precedence(line.rule)]
    ELSE IF line.line = "Query"
    THEN [kb |-> [k EXCEPT !.inline_queries = Append(@, line.term)], out |-> <<>>]
    ELSE IF line.line = "RuleType"
    THEN IF rewrite_rule(line.rule).body # <<>>
         THEN [kb |-> k,
               out |-> <<DiagError(RuleError("InvalidRuleType", rewrite_rule(line.rule),
                                             <<"\nRule types cannot contain dot lookups.">>))>>]
         ELSE [kb |-> add_rule_type(k, rewrite_rule(line.rule)), out |-> <<>>]
    ELSE LET r == add_to_kb(k, line.block)
         IN  [kb |-> r.kb, out |-> [i \in DOMAIN r.out |-> DiagError(r.out[i])]]

RECURSIVE load_lines(_, _, _)
load_lines(k, lines, diagnostics) ==
    IF lines = <<>> THEN [kb |-> k, out |-> Ok(diagnostics)]
    ELSE LET next(r) == load_lines(r.kb, Tail(lines), diagnostics \o r.out)
         IN  next(load_line(k, Head(lines)))

load_source(k, source_id, source) ==
    LET lines == parse_lines(source.src)
    IN  IF ~lines.ok THEN [kb |-> k, out |-> lines]
        ELSE load_lines(k, lines.val, <<>>)

(* The loop over the sources: each is registered and, when accepted, loaded. *)
RECURSIVE load_sources(_, _, _)
load_sources(k, sources, diagnostics) ==
    IF sources = <<>> THEN [kb |-> k, out |-> diagnostics]
    ELSE LET loaded(l) ==
                 IF ~l.out.ok
                 THEN load_sources(l.kb, Tail(sources),
                                   Append(diagnostics, DiagError(l.out)))
                 ELSE load_sources(l.kb, Tail(sources), diagnostics \o l.out.val)
             added(a) ==
                 IF ~a.out.ok
                 THEN load_sources(a.kb, Tail(sources),
                                   Append(diagnostics, DiagError(a.out)))
                 ELSE loaded(load_source(a.kb, a.out.val, Head(sources)))
         IN  added(add_source(k, Head(sources)))

(* check_no_allow_rule, check_resource_blocks_missing_has_permission: the   *)
(* warnings of the policy-level lints.                                     *)
check_no_allow_rule(k) ==
    IF {"allow", "allow_field", "allow_request"} \cap DOMAIN k.rules = {}
    THEN <<DiagWarning(<<"Your policy does not contain an allow rule">>)>>
    ELSE <<>>

check_resource_blocks_missing_has_permission(k) ==
    IF /\ DOMAIN k.resource_blocks.declarations # {}
       /\ \A n \in DOMAIN k.rules : \A i \in DOMAIN k.rules[n] :
            \A j \in DOMAIN k.rules[n][i].body :
                ~(k.rules[n][i].body[j].t = "Call"
                  /\ k.rules[n][i].body[j].name = "has_permission")
    THEN <<DiagWarning(<<"Your policy has resource blocks but no has_permission call">>)>>
    ELSE <<>>

(* The knowledge base after the sources are loaded, the shorthand rules     *)
(* rewritten and the rule types of the resource blocks created, with the   *)
(* diagnostics so far.                                                     *)
load_and_rewrite(k, sources, o) ==
    LET create(loaded, rewritten) ==
            [kb  |-> create_resource_specific_rule_types(rewritten.kb, o.created),
             out |-> loaded.out
                     \o [i \in DOMAIN rewritten.out |-> DiagError(rewritten.out[i])]]
        rewrite(loaded) ==
            create(loaded, rewrite_shorthand_rules(loaded.kb, o.blocks, o.tuples))
    IN  rewrite(load_sources(k, sources, <<>>))

(* The orders in which one diagnostic_load walks its hash maps. *)
LoadOrders(k, sources) ==
    LET orders(loaded) ==
            UNION {
              {[blocks |-> b, tuples |-> t, created |-> c, validate |-> v] :
                  v \in Orders(load_and_rewrite(k, sources,
                                  [blocks |-> b, tuples |-> t, created |-> c]).kb)} :
              <<b, t, c>> \in Perms(DOMAIN loaded.resource_blocks.shorthand_rules)
                              \X Perms(relation_tuples(loaded))
                              \X Perms(DOMAIN rule_types_to_create(loaded))}
    IN  orders(load_sources(k, sources, <<>>).kb)

(* diagnostic_load without the clear_rules that follows validation. *)
diagnostic_load_without_final_clear(k, sources, o, ignore_no_allow) ==
    LET lint(before, valid) ==
            LET all == before.out \o valid.val
                       \o (IF ignore_no_allow THEN <<>>
                           ELSE check_no_allow_rule(before.kb))
                       \o check_resource_blocks_missing_has_permission(before.kb)
            IN  IF ~valid.ok
                THEN [kb |-> before.kb, out |-> valid]
                ELSE [kb |-> before.kb, out |-> Ok(all)]
        validate(before) ==
            IF HasError(before.out)
            THEN [kb |-> clear_rules(before.kb), out |-> Ok(before.out)]
            ELSE lint(before, validate_rules(before.kb, o.validate))
    IN  validate(load_and_rewrite(k, sources, o))

(* Polar::diagnostic_load: the knowledge base on return and the list of     *)
(* diagnostics, or the panic that ends the call.                           *)
diagnostic_load(k, sources, o, ignore_no_allow) ==
    LET lint(before, valid) ==
            LET all == before.out \o valid.val
                       \o (IF ignore_no_allow THEN <<>>
                           ELSE check_no_allow_rule(before.kb))
                       \o check_resource_blocks_missing_has_permission(before.kb)
            IN  IF ~valid.ok
                THEN [kb |-> before.kb, out |-> valid]
                ELSE [kb |-> IF HasError(all) THEN clear_rules(before.kb)
                             ELSE before.kb,
                      out |-> Ok(all)]
        validate(before) ==
            IF HasError(before.out)
            THEN [kb |-> clear_rules(before.kb), out |-> Ok(before.out)]
            ELSE lint(before, validate_rules(before.kb, o.validate))
    IN  validate(load_and_rewrite(k, sources, o))

(* Polar::load *)
FirstError(diagnostics) ==
    SelectSeq(diagnostics, LAMBDA d : is_error(d))[1].e

load(k, sources, o, ignore_no_allow) ==
    IF has_rules(k)
    THEN [kb |-> k, out |-> Err("FileLoading", MULTIPLE_LOAD_ERROR_MSG)]
    ELSE LET result(r) ==
                 IF ~r.out.ok THEN r
                 ELSE IF HasError(r.out.val)
                 THEN [kb |-> r.kb, out |-> FirstError(r.out.val)]
                 ELSE [kb |-> r.kb, out |-> Ok(<<>>)]
         IN  result(diagnostic_load(k, sources, o, ignore_no_allow))

----------------------------------------------------------------------------
(* Bounds and the inputs the actions draw from. *)

(* The source ids a Polar instance hands out. *)
MaxId == 4

(* The source ids of the knowledge base the source registry is driven on. *)
MaxSourceId == 5

(* The rules, and the rule types, added to the knowledge base the rule-type *)
(* validation is driven on.                                                *)
MaxRules == 2

MaxRuleTypes == 2

Filenames == {"f", "g"}

Contents == {"f();", "g();"}

SourceInputs ==
    [src : Contents, filename : {None} \cup {Some(f) : f \in Filenames}]

ConstantNames == {ACTOR_UNION_NAME, RESOURCE_UNION_NAME, "User"}

ConstantValues == {ExternalInstance(1), BooleanV(TRUE)}

MroInputs == {<<>>, <<1>>, <<2, 1>>}

(* The lists of sources handed to load and diagnostic_load. *)
LoadInputs ==
    {<<>>,
     <<Source("f();", Some("f"))>>,
     <<Source("g();", None)>>,
     <<Source("f();", Some("f")), Source("f();", Some("f"))>>,
     <<Source("f();", Some("f")), Source("f(", Some("g"))>>,
     <<Source("f() if g();", None)>>,
     <<Source("type f(x); ?= f(1);", None)>>,
     <<Source("allow('leina', 'food');", None)>>,
     <<Source("type f(x, x.y);", None)>>,
     <<Source("actor User {}", None)>>,
     <<Source("actor User {} has_permission('leina', 'eat', 'food');", None)>>}

(* The rules and rule types of test_validate_rules, with a rule over a      *)
(* class that is not registered and a rule over a constant.                *)
RuleInputs ==
    {Rule("f", <<ParamSpec("x", instance("Orange"))>>, <<>>, FALSE),
     Rule("f", <<ParamSpec("x", instance("Fruit"))>>, <<>>, FALSE),
     Rule("g", <<ParamSpec("x", instance("Fruit"))>>, <<>>, FALSE),
     Rule("f", <<ParamSpec("x", instance("Banana"))>>, <<>>, FALSE),
     Rule("f", <<ParamValue(IntegerV(1))>>, <<>>, FALSE),
     Rule("f", <<ParamSpec("x", instance("Orange"))>>, <<Call("h")>>, FALSE)}

RuleTypeInputs ==
    {Rule("f", <<ParamSpec("x", instance("Orange"))>>, <<>>, FALSE),
     Rule("f", <<ParamSpec("x", instance("Orange")), ParamValue(IntegerV(1))>>, <<>>, FALSE),
     Rule("f", <<ParamSpec("x", instance("Fruit"))>>, <<>>, FALSE),
     Rule("g", <<ParamSpec("x", instance("Citrus"))>>, <<>>, TRUE),
     Rule("g", <<ParamSpec("x", instance("Fruit"))>>, <<>>, FALSE),
     Rule("h", <<ParamVar("x")>>, <<>>, TRUE)}

(* The knowledge base test_validate_rules and test_rule_params_match set    *)
(* up: Fruit, Citrus a subclass of Fruit, Orange a subclass of Citrus.      *)
FruitKnowledgeBase ==
    LET k1 == register_constant(NewKnowledgeBase, "Fruit", ExternalInstance(1)).kb
        k2 == register_constant(k1, "Citrus", ExternalInstance(2)).kb
        k3 == register_constant(k2, "Orange", ExternalInstance(3)).kb
        k4 == add_mro(k3, "Fruit", <<1>>).kb
        k5 == add_mro(k4, "Citrus", <<2, 1>>).kb
    IN  add_mro(k5, "Orange", <<3, 2, 1>>).kb

----------------------------------------------------------------------------
(* Actions: the calls a host makes. *)

Called(op, arg, out) == [op |-> op, arg |-> arg, out |-> out]

(* Polar.ignore_no_allow_warning, as Polar::new sets it when the            *)
(* environment does not define POLAR_IGNORE_NO_ALLOW_WARNING.              *)
ignore_no_allow_warning == FALSE

(* A call on a Polar whose lock is poisoned panics at the unwrap. *)
PoisonError == Panic(<<"called Result::unwrap() on an Err value: PoisonError">>)

Poisoned(op, arg) ==
    /\ poisoned
    /\ ret' = Called(op, <<>>, PoisonError)
    /\ UNCHANGED <<kb, loaded_ok, poisoned, threads, query>>

Init ==
    /\ kb = NewKnowledgeBase
    /\ ret = Called("new", <<>>, Ok(<<>>))
    /\ loaded_ok = FALSE
    /\ poisoned = FALSE
    /\ threads = NoThreads
    /\ query = NoQuery

InitFruit ==
    /\ kb = FruitKnowledgeBase
    /\ ret = Called("new", <<>>, Ok(<<>>))
    /\ loaded_ok = FALSE
    /\ poisoned = FALSE
    /\ threads = NoThreads
    /\ query = NoQuery

(* Polar::register_constant *)
RegisterConstant ==
    \E name \in ConstantNames, value \in ConstantValues :
        \/ Poisoned("register_constant", <<name, value>>)
        \/ /\ ~poisoned
           /\ kb' = register_constant(kb, name, value).kb
           /\ ret' = Called("register_constant", <<name, value>>,
                            register_constant(kb, name, value).out)
           /\ UNCHANGED <<loaded_ok, poisoned, threads, query>>

(* Polar::clear_rules *)
ClearRules ==
    \/ Poisoned("clear_rules", <<>>)
    \/ /\ ~poisoned
       /\ kb' = clear_rules(kb)
       /\ ret' = Called("clear_rules", <<>>, Ok(<<>>))
       /\ loaded_ok' = FALSE
       /\ UNCHANGED <<poisoned, threads, query>>

(* Polar::diagnostic_load.  A panic under the write lock poisons it.  The   *)
(* rules are cleared on return exactly when the list holds an error.        *)
DiagnosticLoad ==
    \E sources \in LoadInputs :
        /\ kb.id_counter + Len(sources) <= MaxId
        /\ \/ Poisoned("diagnostic_load", sources)
           \/ /\ ~poisoned
              /\ \E o \in LoadOrders(kb, sources) :
                    LET return(r) ==
                            /\ kb' = r.kb
                            /\ ret' = Called("diagnostic_load", sources, r.out)
                            /\ poisoned' = ~r.out.ok
                            /\ UNCHANGED <<threads, query>>
                            /\ loaded_ok' = IF r.out.ok /\ HasError(r.out.val)
                                            THEN FALSE ELSE loaded_ok
                    IN  return(diagnostic_load(kb, sources, o,
                                               ignore_no_allow_warning))

(* Polar::load.  loaded_ok records that a load has returned Ok and          *)
(* clear_rules has not run since.                                          *)
Load ==
    \E sources \in LoadInputs :
        /\ kb.id_counter + Len(sources) <= MaxId
        /\ \/ Poisoned("load", sources)
           \/ /\ ~poisoned
              /\ \E o \in LoadOrders(kb, sources) :
                    LET return(r) ==
                            /\ kb' = r.kb
                            /\ ret' = Called("load", sources, r.out)
                            /\ poisoned' = (~r.out.ok /\ r.out.kind = "panic")
                            /\ UNCHANGED <<threads, query>>
                            /\ loaded_ok' = IF r.out.ok THEN TRUE
                                            ELSE IF has_rules(kb) \/ r.out.kind = "panic"
                                            THEN loaded_ok ELSE FALSE
                    IN  return(load(kb, sources, o, ignore_no_allow_warning))

Next ==
    \/ RegisterConstant
    \/ ClearRules
    \/ DiagnosticLoad
    \/ Load

Spec == Init /\ [][Next]_vars

(* KnowledgeBase::clear_rules, called on a knowledge base directly. *)
KbClearRules ==
    /\ kb' = clear_rules(kb)
    /\ ret' = Called("clear_rules", <<>>, Ok(<<>>))
    /\ UNCHANGED <<loaded_ok, poisoned, threads, query>>

(* The constant and MRO tables, driven on a knowledge base directly. *)
KbRegisterConstant ==
    \E name \in ConstantNames, value \in ConstantValues :
        /\ kb' = register_constant(kb, name, value).kb
        /\ ret' = Called("register_constant", <<name, value>>,
                         register_constant(kb, name, value).out)
        /\ UNCHANGED <<loaded_ok, poisoned, threads, query>>

KbAddMro ==
    \E name \in ConstantNames, mro \in MroInputs :
        /\ kb' = add_mro(kb, name, mro).kb
        /\ ret' = Called("add_mro", <<name, mro>>, add_mro(kb, name, mro).out)
        /\ UNCHANGED <<loaded_ok, poisoned, threads, query>>

NextConstants ==
    \/ KbRegisterConstant
    \/ KbAddMro
    \/ KbClearRules

SpecConstants == Init /\ [][NextConstants]_vars

(* The source registry, driven on a knowledge base directly. *)
AddSource ==
    /\ kb.id_counter < MaxSourceId
    /\ \E source \in SourceInputs :
        /\ kb' = add_source(kb, source).kb
        /\ ret' = Called("add_source", source, add_source(kb, source).out)
        /\ UNCHANGED <<loaded_ok, poisoned, threads, query>>

NextSources ==
    \/ AddSource
    \/ KbClearRules

SpecSources == Init /\ [][NextSources]_vars

(* Rule-type validation, driven on the knowledge base of the unit tests. *)
CountRules(k) ==
    LET names == DOMAIN k.rules
        Sum[S \in SUBSET names] ==
            IF S = {} THEN 0
            ELSE LET n == CHOOSE x \in S : TRUE IN Len(k.rules[n]) + Sum[S \ {n}]
    IN  Sum[names]

AddedRuleTypes(k) ==
    LET names == DOMAIN k.rule_types
        Sum[S \in SUBSET names] ==
            IF S = {} THEN 0
            ELSE LET n == CHOOSE x \in S : TRUE
                 IN  Len(k.rule_types[n])
                     - (IF n \in DOMAIN DefaultRuleTypes THEN Len(DefaultRuleTypes[n]) ELSE 0)
                     + Sum[S \ {n}]
    IN  Sum[names]

AddRule ==
    /\ CountRules(kb) < MaxRules
    /\ \E rule \in RuleInputs :
        /\ kb' = add_rule(kb, rule)
        /\ ret' = Called("add_rule", rule, Ok(<<>>))
        /\ UNCHANGED <<loaded_ok, poisoned, threads, query>>

AddRuleType ==
    /\ AddedRuleTypes(kb) < MaxRuleTypes
    /\ \E rule_type \in RuleTypeInputs :
        /\ kb' = add_rule_type(kb, rule_type)
        /\ ret' = Called("add_rule_type", rule_type, Ok(<<>>))
        /\ UNCHANGED <<loaded_ok, poisoned, threads, query>>

ValidateRules ==
    \E ord \in Orders(kb) :
        /\ ret' = Called("validate_rules", ord, validate_rules(kb, ord))
        /\ UNCHANGED <<kb, loaded_ok, poisoned, threads, query>>

NextRuleTypes ==
    \/ AddRule
    \/ AddRuleType
    \/ ValidateRules
    \/ KbClearRules

SpecRuleTypes == InitFruit /\ [][NextRuleTypes]_vars

(* The matching of one rule parameter against one rule-type parameter,     *)
(* driven as test_rule_params_match drives it: on a knowledge base with    *)
(* the classes Fruit, Citrus, Orange and Foo and the classes of the        *)
(* primitive values.  Foo has no MRO.                                      *)
RECURSIVE register_classes(_, _)
register_classes(k, classes) ==
    IF classes = <<>> THEN k
    ELSE register_classes(
             register_constant(k, Head(classes)[1],
                               ExternalInstance(Head(classes)[2])).kb,
             Tail(classes))

RECURSIVE add_mros(_, _)
add_mros(k, mros) ==
    IF mros = <<>> THEN k
    ELSE add_mros(add_mro(k, Head(mros)[1], Head(mros)[2]).kb, Tail(mros))

ParamsKnowledgeBase ==
    add_mros(
        register_classes(NewKnowledgeBase,
            <<<<"Fruit", 1>>, <<"Citrus", 2>>, <<"Orange", 3>>, <<"Foo", 4>>,
              <<"Integer", 5>>, <<"Float", 6>>, <<"String", 7>>, <<"Boolean", 8>>,
              <<"List", 9>>, <<"Dictionary", 10>>>>),
        <<<<"Fruit", <<1>>>>, <<"Citrus", <<2, 1>>>>, <<"Orange", <<3, 2, 1>>>>,
          <<"Integer", <<>>>>, <<"Float", <<>>>>, <<"String", <<>>>>,
          <<"Boolean", <<>>>>, <<"List", <<>>>>, <<"Dictionary", <<>>>>>>)

(* The knowledge base after the blocks `actor <name> {}` and               *)
(* `resource <name> {}` of the policy have been added.                     *)
RECURSIVE declare_blocks(_, _)
declare_blocks(k, blocks) ==
    IF blocks = <<>> THEN k
    ELSE declare_blocks(
             add_to_kb(k, ResourceBlockLine(Head(blocks)[1], Head(blocks)[2],
                                            {}, {}, EmptyMap, <<>>).block).kb,
             Tail(blocks))

(* The knowledge bases the parameters are matched on: that of the test; it *)
(* with the actors Citrus and Fruit and the resource Foo declared; it with *)
(* Foo registered as the constant true (as test_missing_actor_hint         *)
(* registers its classes); and that one with the actors Citrus and Foo.    *)
ParamKnowledgeBases ==
    {ParamsKnowledgeBase,
     declare_blocks(ParamsKnowledgeBase,
         <<<<"actor", "Citrus">>, <<"actor", "Fruit">>, <<"resource", "Foo">>>>),
     register_constant(ParamsKnowledgeBase, "Foo", BooleanV(TRUE)).kb,
     declare_blocks(register_constant(ParamsKnowledgeBase, "Foo", BooleanV(TRUE)).kb,
         <<<<"actor", "Citrus">>, <<"actor", "Foo">>>>)}

(* Parameters of rules. *)
RuleParamInputs ==
    {ParamVar("x"),
     ParamSpec("x", instance("Fruit")),
     ParamSpec("x", instance("Citrus")),
     ParamSpec("x", instance("Orange")),
     ParamSpec("x", instance("Foo")),
     ParamSpec("x", instance("Banana")),
     ParamSpec("x", PatternV(InstanceLiteral("Orange", [id |-> IntegerV(1)]))),
     ParamSpec("x", PatternV(InstanceLiteral("Fruit", [id |-> IntegerV(1)]))),
     ParamSpec("x", instance(ACTOR_UNION_NAME)),
     ParamSpec("x", instance(RESOURCE_UNION_NAME)),
     ParamSpec("x", PatternV(DictionaryPattern([id |-> IntegerV(1)]))),
     ParamSpec("x", PatternV(DictionaryPattern([id |-> IntegerV(2)]))),
     ParamSpec("x", PatternV(DictionaryPattern([id |-> IntegerV(1), name |-> StringV("a")]))),
     ParamSpec("x", IntegerV(6)),
     ParamSpec("x", FloatV(6)),
     ParamSpec("x", StringV("hello")),
     ParamSpec("x", BooleanV(TRUE)),
     ParamSpec("x", DictionaryV([id |-> IntegerV(1)])),
     ParamSpec("x", ListV(<<IntegerV(1), IntegerV(2)>>)),
     ParamSpec("x", ListV(<<IntegerV(1), IntegerV(2), IntegerV(3)>>)),
     ParamValue(IntegerV(6)),
     ParamValue(StringV("hello")),
     ParamValue(ListV(<<IntegerV(1), IntegerV(2)>>))}

(* Parameters of rule types. *)
RuleTypeParamInputs ==
    {ParamVar("x"),
     ParamSpec("x", instance("Fruit")),
     ParamSpec("x", instance("Citrus")),
     ParamSpec("x", instance("Orange")),
     ParamSpec("x", instance("Foo")),
     ParamSpec("x", instance("Banana")),
     ParamSpec("x", PatternV(InstanceLiteral("Fruit", [id |-> IntegerV(1)]))),
     ParamSpec("x", instance(ACTOR_UNION_NAME)),
     ParamSpec("x", instance(RESOURCE_UNION_NAME)),
     ParamSpec("x", PatternV(InstanceLiteral(ACTOR_UNION_NAME, [id |-> IntegerV(1)]))),
     ParamSpec("x", PatternV(DictionaryPattern([id |-> IntegerV(1)]))),
     ParamSpec("x", instance("Integer")),
     ParamSpec("x", instance("Float")),
     ParamSpec("x", instance("String")),
     ParamSpec("x", instance("Boolean")),
     ParamSpec("x", instance("List")),
     ParamSpec("x", instance("Dictionary")),
     ParamSpec("x", PatternV(InstanceLiteral("String", [id |-> IntegerV(1)]))),
     ParamSpec("x", PatternV(InstanceLiteral("Dictionary", [id |-> IntegerV(1)]))),
     ParamSpec("x", IntegerV(6)),
     ParamSpec("x", DictionaryV([id |-> IntegerV(1)])),
     ParamSpec("x", ListV(<<IntegerV(1), IntegerV(2)>>)),
     ParamSpec("x", ListV(<<IntegerV(2), IntegerV(1), IntegerV(1)>>)),
     ParamSpec("x", ListV(<<IntegerV(1), IntegerV(2), IntegerV(3)>>)),
     ParamSpec("x", ListV(<<IntegerV(1), IntegerV(2), RestVariable("rest")>>)),
     ParamValue(IntegerV(6)),
     ParamValue(ListV(<<IntegerV(1), RestVariable("rest")>>))}

(* The inputs of one call: a rule parameter, a rule-type parameter and the  *)
(* order in which the members of the unions are walked.                    *)
InitParams ==
    /\ kb \in ParamKnowledgeBases
    /\ ret \in {Called("input",
                       [rule_param |-> rule_param,
                        rule_type_param |-> rule_type_param, ord |-> ord],
                       Ok(<<>>)) :
                    rule_param \in RuleParamInputs,
                    rule_type_param \in RuleTypeParamInputs,
                    ord \in Orders(kb)}
    /\ loaded_ok = FALSE
    /\ poisoned = FALSE
    /\ threads = NoThreads
    /\ query = NoQuery

(* check_param on the first parameter of a rule and of a rule type. *)
CheckParam ==
    /\ ret.op = "input"
    /\ ret' = Called("check_param", ret.arg,
                     check_param(kb, ret.arg.ord, 1, ret.arg.rule_param,
                                 ret.arg.rule_type_param))
    /\ UNCHANGED <<kb, loaded_ok, poisoned, threads, query>>

(* rule_params_match on a rule f and a rule type f of one parameter. *)
RuleParamsMatch ==
    /\ ret.op = "input"
    /\ ret' = Called("rule_params_match", ret.arg,
                     rule_params_match(kb, ret.arg.ord,
                         Rule("f", <<ret.arg.rule_param>>, <<>>, FALSE),
                         Rule("f", <<ret.arg.rule_type_param>>, <<>>, FALSE)))
    /\ UNCHANGED <<kb, loaded_ok, poisoned, threads, query>>

(* validate_rules on the knowledge base with the rules f and g of the      *)
(* rule parameter, a second rule f, and the required rule types f, of the  *)
(* rule-type parameter, and g.                                             *)
ValidateRuleTypes ==
    /\ ret.op = "input"
    /\ LET validate(k) ==
              /\ kb' = k
              /\ \E ord \in Orders(k) :
                    ret' = Called("validate_rules", ord, validate_rules(k, ord))
       IN  validate(
               add_rule_types(
                   add_rules(kb,
                       <<Rule("f", <<ret.arg.rule_param>>, <<>>, FALSE),
                         Rule("f", <<ParamSpec("x", instance("Orange"))>>, <<>>, FALSE),
                         Rule("g", <<ret.arg.rule_param>>, <<>>, FALSE)>>),
                   <<Rule("f", <<ret.arg.rule_type_param>>, <<>>, TRUE),
                     Rule("g", <<ParamSpec("x", instance("Fruit"))>>, <<>>, TRUE)>>))
    /\ UNCHANGED <<loaded_ok, poisoned, threads, query>>

(* Second parameters of a rule and of a rule type: a pair that matches, a   *)
(* pair that does not, and a pair whose check ends in an error.            *)
SecondParamInputs ==
    {<<ParamVar("y"), ParamVar("y")>>,
     <<ParamSpec("y", IntegerV(6)), ParamSpec("y", IntegerV(7))>>,
     <<ParamValue(ListV(<<IntegerV(1), IntegerV(2)>>)),
       ParamValue(ListV(<<IntegerV(1), RestVariable("rest")>>))>>}

(* rule_params_match on a rule f and a rule type f of one or two           *)
(* parameters each.                                                        *)
RuleParamsMatchRules ==
    /\ ret.op = "input"
    /\ \E second \in SecondParamInputs, n, m \in 1..2 :
          LET rule == Rule("f", SubSeq(<<ret.arg.rule_param, second[1]>>, 1, n),
                           <<>>, FALSE)
              rule_type == Rule("f", SubSeq(<<ret.arg.rule_type_param, second[2]>>, 1, m),
                                <<>>, FALSE)
          IN  /\ n + m > 2
              /\ ret' = Called("rule_params_match_rules",
                               [rule |-> rule, rule_type |-> rule_type, ord |-> ret.arg.ord],
                               rule_params_match(kb, ret.arg.ord, rule, rule_type))
    /\ UNCHANGED <<kb, loaded_ok, poisoned, threads, query>>

NextParams ==
    \/ CheckParam
    \/ RuleParamsMatch
    \/ ValidateRuleTypes
    \/ RuleParamsMatchRules

SpecParams == InitParams /\ [][NextParams]_vars

----------------------------------------------------------------------------
(* The rule types of the resource blocks: create_resource_specific_rule_types *)
(* on knowledge bases that hold the blocks of Org, Repo and Issue of its    *)
(* comments, in every order of the map of rule types to create.            *)

ShorthandRule(head, implier, on) == [head |-> head, implier |-> implier, on |-> on]

Block(keyword, resource, roles, permissions, relations, shorthand_rules) ==
    ResourceBlockLine(keyword, resource, roles, permissions, relations,
                      shorthand_rules).block

RECURSIVE add_blocks(_, _)
add_blocks(k, blocks) ==
    IF blocks = <<>> THEN k
    ELSE add_blocks(add_to_kb(k, Head(blocks)).kb, Tail(blocks))

(* For each resource, the blocks a policy may declare for it; <<>> stands  *)
(* for a policy without block for the resource.                            *)
OrgBlocks ==
    {<<>>,
     <<Block("resource", "Org", {"admin"}, {}, [owner |-> "User"], <<>>)>>,
     <<Block("resource", "Org", {}, {"read"}, EmptyMap, <<>>)>>}

RepoBlocks ==
    {<<>>,
     <<Block("resource", "Repo", {"writer"}, {}, [parent_org |-> "Org"],
             <<ShorthandRule("writer", "admin", Some("parent_org"))>>)>>,
     <<Block("resource", "Repo", {"writer"}, {}, [parent_org |-> "Org"],
             <<ShorthandRule("writer", "owner", Some("parent_org"))>>)>>,
     <<Block("resource", "Repo", {"writer"}, {}, [parent_org |-> "Org", owner |-> "User"],
             <<ShorthandRule("writer", "owner", None)>>)>>,
     <<Block("resource", "Repo", {}, {"push"}, [parent_org |-> "Org"], <<>>)>>}

IssueBlocks ==
    {<<>>,
     <<Block("resource", "Issue", {}, {"read"}, [repo |-> "Repo"],
             <<ShorthandRule("read", "writer", Some("repo"))>>)>>}

BlockKnowledgeBases ==
    {add_blocks(NewKnowledgeBase, org \o repo \o issue) :
        org \in OrgBlocks, repo \in RepoBlocks, issue \in IssueBlocks}

InitBlocks ==
    /\ kb \in BlockKnowledgeBases
    /\ ret \in {Called("input", [kb |-> kb, created |-> created], Ok(<<>>)) :
                    created \in Perms(DOMAIN rule_types_to_create(kb))}
    /\ loaded_ok = FALSE
    /\ poisoned = FALSE
    /\ threads = NoThreads
    /\ query = NoQuery

CreateResourceSpecificRuleTypes ==
    /\ ret.op = "input"
    /\ kb' = create_resource_specific_rule_types(kb, ret.arg.created)
    /\ ret' = Called("create_resource_specific_rule_types", ret.arg, Ok(<<>>))
    /\ UNCHANGED <<loaded_ok, poisoned, threads, query>>

NextBlocks == CreateResourceSpecificRuleTypes

SpecBlocks == InitBlocks /\ [][NextBlocks]_vars

----------------------------------------------------------------------------
(* Threads that share one Polar.  Polar.kb is an Arc<RwLock<KnowledgeBase>>: *)
(* Polar::load reads has_rules under a read guard that is dropped at the    *)
(* end of the statement, and diagnostic_load takes the write guard before  *)
(* its loop over the sources and holds it until it returns.  A thread's    *)
(* call is split into the steps between which another thread can run; the  *)
(* knowledge base goes through the states it has after each source, after  *)
(* the rule types of the resource blocks are created, and on return.       *)

Threads == {1, 2}

ThreadLoadInputs ==
    {<<Source("f();", Some("f"))>>,
     <<Source("g();", None)>>,
     <<Source("f() if g();", None)>>,
     <<Source("f();", Some("f")), Source("f(", Some("g"))>>}

(* A read that does not wait for the write guard. *)
CanReadUnlocked(th) == TRUE

(* RwLock::read and RwLock::write return when no thread holds the write    *)
(* guard; a read guard lives for one statement, so none is ever held when  *)
(* another thread takes a step.                                            *)
CanRead(th) == th.lock = 0

CanWrite(th) == th.lock = 0

(* Polar::load after its guard: the diagnostics of diagnostic_load turned   *)
(* into the result of the call.                                            *)
load_after_guard(k, sources, o, ignore_no_allow) ==
    LET result(r) ==
            IF ~r.out.ok THEN r
            ELSE IF HasError(r.out.val)
            THEN [kb |-> r.kb, out |-> FirstError(r.out.val)]
            ELSE [kb |-> r.kb, out |-> Ok(<<>>)]
    IN  result(diagnostic_load(k, sources, o, ignore_no_allow))

NoCall == [sources |-> <<>>, saw |-> <<>>, start |-> <<>>, o |-> <<>>, loaded |-> 0,
           out |-> <<>>]

InitThreads ==
    /\ kb = NewKnowledgeBase
    /\ ret = Called("new", <<>>, Ok(<<>>))
    /\ loaded_ok = FALSE
    /\ poisoned = FALSE
    /\ threads = [lock |-> 0,
                  pc |-> [t \in Threads |-> "idle"],
                  call |-> [t \in Threads |-> NoCall],
                  committed |-> NewKnowledgeBase,
                  seen |-> <<>>]
    /\ query = NoQuery

(* A thread calls Polar::load. *)
CallLoad(t) ==
    /\ threads.pc[t] = "idle"
    /\ \E sources \in ThreadLoadInputs :
          threads' = [threads EXCEPT !.pc[t] = "guard", !.call[t].sources = sources]
    /\ UNCHANGED <<kb, ret, loaded_ok, poisoned, query>>

(* self.kb.read().unwrap().has_rules() *)
CheckHasRules(t) ==
    /\ threads.pc[t] = "guard"
    /\ ~poisoned
    /\ CanRead(threads)
    /\ threads' =
          [threads EXCEPT
              !.call[t].saw = <<[kb |-> kb, committed |-> threads.committed]>>,
              !.call[t].out = IF has_rules(kb)
                              THEN <<Err("FileLoading", MULTIPLE_LOAD_ERROR_MSG)>>
                              ELSE <<>>,
              !.pc[t] = IF has_rules(kb) THEN "returned" ELSE "passed"]
    /\ UNCHANGED <<kb, ret, loaded_ok, poisoned, query>>

(* let mut kb = self.kb.write().unwrap(); *)
AcquireWrite(t) ==
    /\ threads.pc[t] = "passed"
    /\ ~poisoned
    /\ CanWrite(threads)
    /\ \E o \in LoadOrders(kb, threads.call[t].sources) :
          threads' = [threads EXCEPT !.lock = t, !.pc[t] = "loading",
                                     !.call[t].start = kb, !.call[t].o = o]
    /\ UNCHANGED <<kb, ret, loaded_ok, poisoned, query>>

(* One turn of the loop over the sources. *)
LoadSource(t) ==
    /\ threads.pc[t] = "loading"
    /\ threads.call[t].loaded < Len(threads.call[t].sources)
    /\ kb' = load_sources(threads.call[t].start,
                          SubSeq(threads.call[t].sources, 1, threads.call[t].loaded + 1),
                          <<>>).kb
    /\ threads' = [threads EXCEPT !.call[t].loaded = @ + 1]
    /\ UNCHANGED <<ret, loaded_ok, poisoned, query>>

(* rewrite_shorthand_rules and create_resource_specific_rule_types. *)
RewriteAndCreate(t) ==
    /\ threads.pc[t] = "loading"
    /\ threads.call[t].loaded = Len(threads.call[t].sources)
    /\ kb' = load_and_rewrite(threads.call[t].start, threads.call[t].sources,
                              threads.call[t].o).kb
    /\ threads' = [threads EXCEPT !.pc[t] = "validating"]
    /\ UNCHANGED <<ret, loaded_ok, poisoned, query>>

(* The rest of diagnostic_load and of load: validation, the clear_rules     *)
(* after an error, the write guard dropped and the result returned.        *)
ReturnFromLoad(t) ==
    /\ threads.pc[t] = "validating"
    /\ LET return(r) ==
              /\ kb' = r.kb
              /\ poisoned' = (~r.out.ok /\ r.out.kind = "panic")
              /\ threads' = [threads EXCEPT !.lock = 0, !.pc[t] = "returned",
                                            !.call[t].out = <<r.out>>,
                                            !.committed = r.kb]
              /\ ret' = Called("load", threads.call[t].sources, r.out)
       IN  return(load_after_guard(threads.call[t].start, threads.call[t].sources,
                                   threads.call[t].o, ignore_no_allow_warning))
    /\ UNCHANGED <<loaded_ok, query>>

(* Another thread reads the knowledge base (has_rules, a rule or constant   *)
(* lookup) under a read guard.                                             *)
Observe ==
    /\ ~poisoned
    /\ CanRead(threads)
    /\ threads' = [threads EXCEPT
                      !.seen = <<[kb |-> kb, committed |-> threads.committed]>>]
    /\ UNCHANGED <<kb, ret, loaded_ok, poisoned, query>>

NextThreads ==
    \/ \E t \in Threads : CallLoad(t)
    \/ \E t \in Threads : CheckHasRules(t)
    \/ \E t \in Threads : AcquireWrite(t)
    \/ \E t \in Threads : LoadSource(t)
    \/ \E t \in Threads : RewriteAndCreate(t)
    \/ \E t \in Threads : ReturnFromLoad(t)
    \/ Observe

SpecThreads == InitThreads /\ [][NextThreads]_vars

----------------------------------------------------------------------------
(* Query: the runnable stack and the iterator.  A runnable is what its run *)
(* calls return, one after the other (script), whether it takes the result *)
(* of a runnable it has started (accepts), and the results it has been     *)
(* given (answers).  The VM is the runnable at the bottom.                 *)

EvNone == [ev |-> "None"]

EvRun(runnable, call_id) == [ev |-> "Run", runnable |-> runnable, call_id |-> call_id]

EvDone(result) == [ev |-> "Done", result |-> result]

EvExternalCall(call_id) == [ev |-> "ExternalCall", call_id |-> call_id]

EvDebug == [ev |-> "Debug"]

(* One call of run: what run returns and, when that is an error, what      *)
(* handle_error makes of it.                                               *)
Step(run, handled) == [run |-> run, handled |-> handled]

Emits(event) == Step(Ok(event), Ok(event))

Runnable(name, accepts, script) ==
    [name |-> name, accepts |-> accepts, script |-> script, answers |-> <<>>]

(* The longest script of a VM of the inputs, its final Done left out. *)
MaxScript == 2

RunnableC == Runnable("C", TRUE, <<Emits(EvExternalCall(2)), Emits(EvDone(TRUE))>>)

RunnableInputs ==
    {Runnable("B", TRUE, <<Emits(EvDone(TRUE))>>),
     Runnable("B", TRUE, <<Emits(EvNone), Emits(EvRun(RunnableC, 9)), Emits(EvDone(FALSE))>>),
     Runnable("B", FALSE, <<Emits(EvRun(RunnableC, 9)), Emits(EvDone(TRUE))>>)}

StepInputs ==
    {Emits(EvNone), Emits(EvExternalCall(1)),
     Step(Err("RuntimeError", <<"error">>), Ok(EvDebug)),
     Step(Err("RuntimeError", <<"error">>), Err("RuntimeError", <<"error">>))}
    \cup {Emits(EvRun(runnable, 7)) : runnable \in RunnableInputs}

ScriptInputs ==
    UNION {[1..n -> StepInputs] : n \in 0..MaxScript}

(* Runnable::run; a runnable whose script is at its end is done. *)
run(runnable) ==
    IF runnable.script = <<>>
    THEN [runnable |-> runnable, step |-> Emits(EvDone(TRUE))]
    ELSE [runnable |-> [runnable EXCEPT !.script = Tail(@)],
          step     |-> Head(runnable.script)]

(* Runnable::external_question_result *)
external_question_result(runnable, call_id, result) ==
    IF runnable.accepts
    THEN [runnable |-> [runnable EXCEPT !.answers = Append(@, <<call_id, result>>)],
          out |-> Ok(<<>>)]
    ELSE [runnable |-> runnable,
          out |-> Err("InvalidState", <<"Unexpected external question result">>)]

(* Query::new *)
NewQuery(vm) ==
    [runnable_stack |-> <<>>, vm |-> vm, done |-> FALSE,
     \* history
     trace |-> <<>>, runs |-> 0, returned_done |-> FALSE]

(* Query::top_runnable with the stack read from its other end. *)
bottom_runnable(q) ==
    IF q.runnable_stack # <<>> THEN q.runnable_stack[1][1] ELSE q.vm

(* Query::top_runnable *)
top_runnable(q) ==
    IF q.runnable_stack # <<>>
    THEN q.runnable_stack[Len(q.runnable_stack)][1]
    ELSE q.vm

(* The runnable top_runnable borrows, written back. *)
set_top_runnable(q, runnable) ==
    IF q.runnable_stack # <<>>
    THEN [q EXCEPT !.runnable_stack[Len(q.runnable_stack)][1] = runnable]
    ELSE [q EXCEPT !.vm = runnable]

push_runnable(q, runnable, call_id) ==
    [q EXCEPT !.runnable_stack = Append(@, <<runnable, call_id>>)]

pop_runnable(q) ==
    IF q.runnable_stack = <<>> THEN [q |-> q, out |-> None]
    ELSE [q |-> [q EXCEPT !.runnable_stack = SubSeq(@, 1, Len(@) - 1)],
          out |-> Some(q.runnable_stack[Len(q.runnable_stack)])]

(* The names and call ids on the stack. *)
StackNames(q) ==
    [i \in DOMAIN q.runnable_stack |->
        <<q.runnable_stack[i][1].name, q.runnable_stack[i][2]>>]

(* Query::next_event and Query::recv_event. *)
RECURSIVE next_event(_)
RECURSIVE recv_event(_, _)
next_event(q) ==
    LET received(q1, qe) ==
            IF ~qe.ok THEN [q |-> q1, out |-> qe] ELSE recv_event(q1, qe.val)
        ran(top, r) ==
            received([set_top_runnable(q, r.runnable) EXCEPT
                         !.runs = @ + 1,
                         !.trace = Append(@, [what |-> "run", ran |-> top.name,
                                              stack |-> StackNames(q),
                                              event |-> r.step.run])],
                     IF r.step.run.ok THEN r.step.run ELSE r.step.handled)
        with(top) == ran(top, run(top))
    IN  with(top_runnable(q))

recv_event(q, qe) ==
    IF qe.ev = "None" THEN next_event(q)
    ELSE IF qe.ev = "Run"
    THEN next_event(push_runnable(q, qe.runnable, qe.call_id))
    ELSE IF qe.ev = "Done"
    THEN LET answered(q1, call_id, a) ==
                 IF ~a.out.ok THEN [q |-> q1, out |-> a.out]
                 ELSE next_event(
                          [set_top_runnable(q1, a.runnable) EXCEPT
                              !.trace = Append(@, [what |-> "answer",
                                                   to |-> a.runnable.name,
                                                   call_id |-> call_id,
                                                   result |-> qe.result])])
             popped(p) ==
                 IF p.out # None
                 THEN answered(p.q, p.out[1][2],
                               external_question_result(top_runnable(p.q), p.out[1][2],
                                                        qe.result))
                 ELSE [q |-> q, out |-> Ok(qe)]
         IN  popped(pop_runnable(q))
    ELSE [q |-> q, out |-> Ok(qe)]

(* Iterator::next without the done flag. *)
iterator_next_without_done(q) ==
    LET event(r) ==
            [q |-> [r.q EXCEPT !.done = r.out.ok /\ r.out.val.ev = "Done"],
             out |-> Some(r.out)]
    IN  event(next_event([q EXCEPT !.trace = <<>>]))

(* Iterator::next of Query *)
iterator_next(q) ==
    IF q.done THEN [q |-> [q EXCEPT !.trace = <<>>], out |-> None]
    ELSE LET event(r) ==
                 [q |-> [r.q EXCEPT !.done = @ \/ (r.out.ok /\ r.out.val.ev = "Done")],
                  out |-> Some(r.out)]
         IN  event(next_event([q EXCEPT !.trace = <<>>]))

InitQuery ==
    /\ kb = NewKnowledgeBase
    /\ ret = Called("new_query", <<>>, Ok(<<>>))
    /\ loaded_ok = FALSE
    /\ poisoned = FALSE
    /\ threads = NoThreads
    /\ query \in {NewQuery(Runnable("vm", TRUE, script \o <<Emits(EvDone(TRUE))>>)) :
                      script \in ScriptInputs}

(* for event in query: one call of next. *)
QueryNext ==
    /\ LET return(r) ==
              /\ query' = [r.q EXCEPT !.returned_done =
                              @ \/ (r.out # None /\ r.out[1].ok /\ r.out[1].val.ev = "Done")]
              /\ ret' = Called("next",
                               [returned_done |-> query.returned_done,
                                runs |-> query.runs,
                                stack |-> StackNames(query)],
                               r.out)
       IN  return(iterator_next(query))
    /\ UNCHANGED <<kb, loaded_ok, poisoned, threads>>

NextQuery == QueryNext

SpecQuery == InitQuery /\ [][NextQuery]_vars

----------------------------------------------------------------------------
(* The claims. *)

(* What the by-id registry says about a source. *)
LoadedUnder(k, src, filename) ==
    \E id \in DOMAIN k.sources : k.sources[id] = Source(src, Some(filename))

FileLoaded(k, filename) ==
    \E id \in DOMAIN k.sources : k.sources[id].filename = Some(filename)

OtherNamesOf(k, src, filename) ==
    {g \in Filenames : g # filename /\ LoadedUnder(k, src, g)}

(* The message the three cases prescribe for add_source(source) on k, the  *)
(* empty message when none of them applies.                                *)
ExpectedAddSource(k, source) ==
    LET c == source.src
        f == source.filename[1]
    IN  IF source.filename = None THEN <<>>
        ELSE IF LoadedUnder(k, c, f)
        THEN <<"File ", f, " has already been loaded.">>
        ELSE IF FileLoaded(k, f)
        THEN <<"A file with the name ", f,
               ", but different contents has already been loaded.">>
        ELSE IF OtherNamesOf(k, c, f) # {}
        THEN <<"A file with the same contents as ", f, " named ",
               CHOOSE g \in OtherNamesOf(k, c, f) : TRUE,
               " has already been loaded.">>
        ELSE <<>>

(* C1: add_source of contents c under filename f is rejected, with a        *)
(* FileLoading error, in exactly three cases, each with its own message:   *)
(* c is loaded under f; f is loaded with other contents (also when c is    *)
(* loaded under another name); c is loaded under another name g and f is   *)
(* not loaded.  In every other case, and without a filename, it succeeds.  *)
C1_AddSourceRejections ==
    [][ret'.op = "add_source" =>
         LET expected == ExpectedAddSource(kb, ret'.arg)
         IN  IF expected = <<>>
             THEN ret'.out.ok
             ELSE ret'.out = Err("FileLoading", expected)]_vars

(* C1, witness: a source is rejected because its filename is loaded with    *)
(* other contents, while its contents are loaded under another name.       *)
C1_Witness ==
    /\ ret.op = "add_source"
    /\ ret.arg.filename # None
    /\ ret.out = Err("FileLoading",
                     <<"A file with the name ", ret.arg.filename[1],
                       ", but different contents has already been loaded.">>)
    /\ OtherNamesOf(kb, ret.arg.src, ret.arg.filename[1]) # {}

(* C2: after any sequence of add_source calls the three source maps are     *)
(* consistent: every loaded filename maps to one source id whose by-id     *)
(* entry has that filename, the contents map leads from that source's      *)
(* contents back to the filename, no filename is recorded with two ids     *)
(* and no contents under two filenames.                                    *)
C2_SourceMapsConsistent ==
    /\ \A f \in DOMAIN kb.loaded_files :
          /\ kb.loaded_files[f] \in DOMAIN kb.sources
          /\ kb.sources[kb.loaded_files[f]].filename = Some(f)
          /\ kb.sources[kb.loaded_files[f]].src \in DOMAIN kb.loaded_content
          /\ kb.loaded_content[kb.sources[kb.loaded_files[f]].src] = f
    /\ \A c \in DOMAIN kb.loaded_content : LoadedUnder(kb, c, kb.loaded_content[c])
    /\ \A i, j \in DOMAIN kb.sources :
          kb.sources[i].filename # None =>
            /\ kb.loaded_files[kb.sources[i].filename[1]] = i
            /\ kb.sources[j].filename = kb.sources[i].filename => i = j
            /\ (kb.sources[j].src = kb.sources[i].src /\ kb.sources[j].filename # None)
                  => kb.sources[j].filename = kb.sources[i].filename

(* C2, witness: two files are loaded and a third add_source was rejected. *)
C2_Witness ==
    /\ Cardinality(DOMAIN kb.loaded_files) = 2
    /\ ret.op = "add_source"
    /\ ~ret.out.ok

(* C3 as the specification states it: after a load that returned Ok, every  *)
(* later load returns the multiple-load FileLoading error, whatever the    *)
(* sources of the two loads, until clear_rules runs.                       *)
C3_LoadAfterLoadRejected ==
    [][(loaded_ok /\ ~poisoned /\ ret'.op = "load") =>
         ret'.out = Err("FileLoading", MULTIPLE_LOAD_ERROR_MSG)]_vars

(* The rules written in a list of sources. *)
RulesOfSources(sources) ==
    UNION {IF parse_lines(sources[i].src).ok
           THEN {l.rule : l \in {x \in Range(parse_lines(sources[i].src).val) :
                                    x.line = "Rule"}}
           ELSE {} : i \in DOMAIN sources}

IsPrefix(s, t) == Len(s) <= Len(t) /\ \A i \in DOMAIN s : s[i] = t[i]

(* The rules the knowledge base k2 holds extend those of k with rules. *)
RulesKept(k, k2, rules) ==
    /\ \A n \in DOMAIN k.rules :
          n \in DOMAIN k2.rules /\ IsPrefix(k.rules[n], k2.rules[n])
    /\ \A r \in rules :
          r.name \in DOMAIN k2.rules /\ r \in Range(k2.rules[r.name])

(* Everything clear_rules empties is empty in k, the rule types apart. *)
RuleStateEmpty(k) ==
    /\ ~has_rules(k)
    /\ k.rules = EmptyMap
    /\ k.sources = EmptyMap
    /\ k.loaded_files = EmptyMap
    /\ k.loaded_content = EmptyMap
    /\ k.inline_queries = <<>>
    /\ k.resource_blocks = EmptyResourceBlocks
    /\ get_union_members(k, ACTOR_UNION_NAME) = {}
    /\ get_union_members(k, RESOURCE_UNION_NAME) = {}

(* C4 as the specification states it: when diagnostic_load returns a list   *)
(* with an error diagnostic, the knowledge base has no rules and its rule  *)
(* types, sources, loaded-file maps, inline queries and resource blocks    *)
(* are empty; when the list holds warnings only, the loaded rules are kept. *)
C4_ErrorLeavesNothing ==
    [][(ret'.op = "diagnostic_load" /\ ret'.out.ok) =>
         IF HasError(ret'.out.val)
         THEN RuleStateEmpty(kb') /\ kb'.rule_types = EmptyMap
         ELSE RulesKept(kb, kb', RulesOfSources(ret'.arg))]_vars

(* C4, amended: when diagnostic_load returns a list with an error           *)
(* diagnostic, the knowledge base has no rules, its sources, loaded-file   *)
(* maps, inline queries and resource blocks are empty and its rule types   *)
(* are those of a new knowledge base (the built-in rule types); when the   *)
(* list holds warnings only, the loaded rules are kept.                    *)
C4_ErrorResetsRuleState ==
    [][(ret'.op = "diagnostic_load" /\ ret'.out.ok) =>
         IF HasError(ret'.out.val)
         THEN RuleStateEmpty(kb') /\ kb'.rule_types = NewKnowledgeBase.rule_types
         ELSE RulesKept(kb, kb', RulesOfSources(ret'.arg))]_vars

(* C4, witness: a diagnostic_load on a knowledge base that held a rule type *)
(* of a policy returned an error of the validation that follows the load,  *)
(* and the knowledge base holds no rule.                                   *)
C4_Witness ==
    /\ ret.op = "diagnostic_load"
    /\ ret.out.ok
    /\ \E i \in DOMAIN ret.out.val :
          is_error(ret.out.val[i]) /\ ret.out.val[i].e.kind = "InvalidRule"
    /\ ret.arg = <<Source("f();", Some("f"))>>
    /\ ~has_rules(kb)

(* The knowledge base with the constants and MROs of k and nothing else. *)
FreshWith(k) ==
    [NewKnowledgeBase EXCEPT !.constants = k.constants, !.mro = k.mro]

(* A valid policy: loaded into a knowledge base that holds only the         *)
(* constants and MROs of k, it yields no error diagnostic.                 *)
ValidPolicy(k, sources) ==
    \A o \in LoadOrders(FreshWith(k), sources) :
        LET r == diagnostic_load(FreshWith(k), sources, o, ignore_no_allow_warning)
        IN  r.out.ok /\ ~HasError(r.out.val)

(* C5 as the specification states it: after load has returned an error, or *)
(* after clear_rules, the next load of a valid policy is accepted.         *)
C5_LoadAfterError ==
    [][(/\ \/ ret.op = "load" /\ ~ret.out.ok /\ ret.out.kind # "panic"
           \/ ret.op = "clear_rules" /\ ret.out.ok
        /\ ret'.op = "load"
        /\ ValidPolicy(kb, ret'.arg)) => ret'.out.ok]_vars

(* C5, amended: after load has returned an error other than the             *)
(* multiple-load error, or after clear_rules, the next load of a valid     *)
(* policy (it may hold a file of the failed load again) is accepted: it    *)
(* is rejected neither by the multiple-load guard nor by the duplicate     *)
(* file checks.                                                            *)
C5_LoadAfterFailedLoad ==
    [][(/\ \/ /\ ret.op = "load" /\ ~ret.out.ok /\ ret.out.kind # "panic"
              /\ ret.out # Err("FileLoading", MULTIPLE_LOAD_ERROR_MSG)
           \/ ret.op = "clear_rules" /\ ret.out.ok
        /\ ret'.op = "load"
        /\ ValidPolicy(kb, ret'.arg)) => ret'.out.ok]_vars

(* C5, witness: file f is loaded under the third source id, the two ids    *)
(* before it having gone to a load that held f and failed.                 *)
C5_Witness ==
    /\ ret.op = "load"
    /\ ret.out.ok
    /\ ret.arg = <<Source("f();", Some("f"))>>
    /\ kb.sources = Put(EmptyMap, 3, Source("f();", Some("f")))
    /\ kb.loaded_files = Put(EmptyMap, "f", 3)

(* The MRO tables over the constants of k. *)
MroTables(k) ==
    UNION {[names -> MroInputs] : names \in SUBSET DOMAIN k.constants}

(* C6 as the specification states it: clear_rules is idempotent; after it   *)
(* has_rules() is false and rules, rule types, sources, loaded-file maps,  *)
(* inline queries, resource blocks and union members are empty; the        *)
(* constant table and the MRO table are as before the call.                *)
C6_ClearEmptiesEverything ==
    [][(ret'.op = "clear_rules" /\ ret'.out.ok) =>
         /\ clear_rules(kb') = kb'
         /\ RuleStateEmpty(kb') /\ kb'.rule_types = EmptyMap
         /\ kb'.constants = kb.constants /\ kb'.mro = kb.mro
         /\ \A m \in MroTables(kb) :
               clear_rules([kb EXCEPT !.mro = m]).mro = m]_vars

(* C6, amended: clear_rules is idempotent; after it has_rules() is false,   *)
(* rules, sources, loaded-file maps, inline queries, resource blocks and   *)
(* union members are empty and the rule types are those of a new           *)
(* knowledge base (the built-in rule types); the constant table and the    *)
(* MRO table, whatever it holds, are as before the call.                   *)
C6_ClearResetsRuleState ==
    [][(ret'.op = "clear_rules" /\ ret'.out.ok) =>
         /\ clear_rules(kb') = kb'
         /\ RuleStateEmpty(kb') /\ kb'.rule_types = NewKnowledgeBase.rule_types
         /\ kb'.constants = kb.constants /\ kb'.mro = kb.mro
         /\ \A m \in MroTables(kb) :
               clear_rules([kb EXCEPT !.mro = m]).mro = m]_vars

(* C6, witness: clear_rules has run on a knowledge base with a registered   *)
(* constant whose load had consumed source ids.                            *)
C6_Witness ==
    /\ ret.op = "clear_rules"
    /\ ret.out.ok
    /\ kb.id_counter > 1
    /\ "User" \in DOMAIN kb.constants

(* The specializer tags of the model: the union names, the registered      *)
(* constants and the declared union members.                               *)
Tags(k) ==
    {ACTOR_UNION_NAME, RESOURCE_UNION_NAME} \cup ConstantNames \cup PromotedTags
        \cup k.resource_blocks.actors \cup k.resource_blocks.resources

UnionNamesFree(k) ==
    /\ ~is_constant(k, ACTOR_UNION_NAME)
    /\ ~is_constant(k, RESOURCE_UNION_NAME)
    /\ \A t \in Tags(k) :
          is_union(k, t) <=> t \in {"Actor", "Resource"}

(* C7: register_constant with the name Actor or Resource fails with a       *)
(* TypeError and leaves the constant table unchanged, so neither name is   *)
(* ever a registered constant; is_union(t) holds iff the tag of t is       *)
(* Actor or Resource, whatever resource blocks are declared.               *)
C7_UnionNamesReserved ==
    [][/\ UnionNamesFree(kb) /\ UnionNamesFree(kb')
       /\ (/\ ~poisoned /\ ret'.op = "register_constant"
           /\ ret'.arg[1] \in {"Actor", "Resource"})
            => (/\ ~ret'.out.ok /\ ret'.out.kind = "TypeError"
                /\ kb'.constants = kb.constants)]_vars

(* C7, witness: register_constant("Actor", _) has been rejected while an    *)
(* actor block is declared.                                                *)
C7_Witness ==
    /\ ret.op = "register_constant"
    /\ ret.arg[1] = "Actor"
    /\ ~ret.out.ok /\ ret.out.kind = "TypeError"
    /\ kb.resource_blocks.actors = {"User"}

(* C8: add_mro(n, mro) succeeds only if n is a registered constant at the   *)
(* time of the call; otherwise it returns InvalidState and leaves the MRO  *)
(* table unchanged.  So every key of the MRO table is a registered         *)
(* constant, also after clear_rules.                                       *)
C8_MroOnlyForConstants ==
    [][/\ DOMAIN kb.mro \subseteq DOMAIN kb.constants
       /\ DOMAIN kb'.mro \subseteq DOMAIN kb'.constants
       /\ (~poisoned /\ ret'.op = "add_mro") =>
            IF is_constant(kb, ret'.arg[1])
            THEN ret'.out.ok /\ kb'.mro[ret'.arg[1]] = ret'.arg[2]
            ELSE /\ ~ret'.out.ok /\ ret'.out.kind = "InvalidState"
                 /\ kb'.mro = kb.mro]_vars

(* C8, witness: add_mro for a name that is not a constant has been          *)
(* rejected on a knowledge base that holds the MRO of a constant.          *)
C8_Witness ==
    /\ ret.op = "add_mro"
    /\ ~ret.out.ok /\ ret.out.kind = "InvalidState"
    /\ ~is_constant(kb, ret.arg[1])
    /\ DOMAIN kb.mro = {"User"}

(* C9 as the specification states it: constants and MROs are write-once:   *)
(* register_constant for a registered name does not replace the stored     *)
(* term, add_mro for a name with an MRO does not replace the stored list.  *)
C9_WriteOnce ==
    [][/\ (ret'.op = "register_constant" /\ ret'.arg[1] \in DOMAIN kb.constants)
            => kb'.constants[ret'.arg[1]] = kb.constants[ret'.arg[1]]
       /\ (ret'.op = "add_mro" /\ ret'.arg[1] \in DOMAIN kb.mro)
            => kb'.mro[ret'.arg[1]] = kb.mro[ret'.arg[1]]]_vars

(* A rule matches a rule type: the same number of parameters, and every    *)
(* pair of parameters passes check_param.                                  *)
Matches(k, ord, rule, rule_type) ==
    /\ Len(rule.params) = Len(rule_type.params)
    /\ \A i \in DOMAIN rule.params :
          check_param(k, ord, i, rule.params[i], rule_type.params[i]) = Ok(MatchTrue)

TypesOf(k, rule) ==
    IF rule.name \in DOMAIN k.rule_types THEN Range(k.rule_types[rule.name]) ELSE {}

AllRules(k) == UNION {Range(k.rules[n]) : n \in DOMAIN k.rules}

(* The rule has rule types under its name, all of another arity. *)
OnlyOtherArity(k, rule) ==
    /\ TypesOf(k, rule) # {}
    /\ \A t \in TypesOf(k, rule) : Len(t.params) # Len(rule.params)

IsInvalidRule(d) == is_error(d) /\ d.e.kind = "InvalidRule"

(* C10: Phase A of validate_rules reports InvalidRule only for a rule that  *)
(* has a rule type under its name and matches none of them (the same       *)
(* number of parameters, every pair passing check_param); a rule whose     *)
(* name has no rule type never causes InvalidRule; a rule type of the      *)
(* same name and another arity applies: a rule that has only such rule     *)
(* types fails validation, with InvalidRule for it when it is the only     *)
(* rule.                                                                   *)
C10_InvalidRuleOnlyForMismatch ==
    [][(ret'.op = "validate_rules" /\ ret'.out.ok) =>
         LET ds  == ret'.out.val
             ord == ret'.arg
         IN  /\ \A i \in DOMAIN ds :
                   IsInvalidRule(ds[i]) =>
                     /\ ds[i].e.rule \in AllRules(kb)
                     /\ TypesOf(kb, ds[i].e.rule) # {}
                     /\ \A t \in TypesOf(kb, ds[i].e.rule) :
                           ~Matches(kb, ord, ds[i].e.rule, t)
             /\ \A r \in AllRules(kb) :
                   OnlyOtherArity(kb, r) =>
                     /\ ds # <<>> /\ is_error(ds[1])
                     /\ ds[1].e.kind \notin {"MissingRequiredRule", "UndefinedRuleCall"}
                     /\ AllRules(kb) = {r} => (IsInvalidRule(ds[1]) /\ ds[1].e.rule = r)]_vars

(* C10, witness: validation has reported InvalidRule for the rule           *)
(* f(x: Orange), whose only rule type is f(x: Orange, 1).                  *)
C10_Witness ==
    /\ ret.op = "validate_rules"
    /\ ret.out.ok
    /\ ret.out.val # <<>>
    /\ IsInvalidRule(ret.out.val[1])
    /\ ret.out.val[1].e.rule = Rule("f", <<ParamSpec("x", instance("Orange"))>>, <<>>, FALSE)
    /\ OnlyOtherArity(kb, ret.out.val[1].e.rule)

(* No check of the rule against a rule type of its name ends in an error   *)
(* (an unregistered class, a class without MRO, a rest variable).          *)
AllChecksOk(k, ord, rule) ==
    \A t \in TypesOf(k, rule) : rule_params_match(k, ord, rule, t).ok

MatchesOne(k, ord, rule) ==
    \E t \in TypesOf(k, rule) : Matches(k, ord, rule, t)

RequiredTypes(k) ==
    {t \in UNION {Range(k.rule_types[n]) : n \in DOMAIN k.rule_types} : t.required}

(* Some rule stored under the name of the rule type matches it. *)
Implemented(k, ord, rule_type) ==
    \E r \in AllRules(k) : r.name = rule_type.name /\ Matches(k, ord, r, rule_type)

IsRuleTypeError(d) ==
    is_error(d) /\ d.e.kind \in {"InvalidRule", "MissingRequiredRule"}

(* C11: when several rule types exist under one name, one match is enough: *)
(* a rule that matches at least one rule type of its name is never the     *)
(* subject of an InvalidRule that validate_rules returns, whatever the     *)
(* other rule types of the name are; and when every rule with rule types   *)
(* matches one of them and every required rule type is implemented,        *)
(* validate_rules returns no rule-type error at all.                       *)
C11_OneMatchIsEnough ==
    [][(ret'.op = "validate_rules" /\ ret'.out.ok) =>
         LET ds  == ret'.out.val
             ord == ret'.arg
         IN  /\ \A r \in AllRules(kb) :
                   MatchesOne(kb, ord, r) =>
                     \A i \in DOMAIN ds :
                        ~(IsInvalidRule(ds[i]) /\ ds[i].e.rule = r)
             /\ (/\ \A r \in AllRules(kb) :
                      TypesOf(kb, r) # {} =>
                        AllChecksOk(kb, ord, r) /\ MatchesOne(kb, ord, r)
                 /\ \A t \in RequiredTypes(kb) : Implemented(kb, ord, t))
                => \A i \in DOMAIN ds : ~IsRuleTypeError(ds[i])]_vars

(* C11, witness: validation has passed for the rule f(x: Fruit) under the   *)
(* rule types f(x: Orange), which it does not match, and f(x: Fruit).      *)
C11_Witness ==
    /\ ret.op = "validate_rules"
    /\ ret.out = Ok(<<>>)
    /\ AllRules(kb) = {Rule("f", <<ParamSpec("x", instance("Fruit"))>>, <<>>, FALSE)}
    /\ "f" \in DOMAIN kb.rule_types
    /\ Range(kb.rule_types["f"]) =
          {Rule("f", <<ParamSpec("x", instance("Orange"))>>, <<>>, FALSE),
           Rule("f", <<ParamSpec("x", instance("Fruit"))>>, <<>>, FALSE)}
    /\ ~Matches(kb, ret.arg, Rule("f", <<ParamSpec("x", instance("Fruit"))>>, <<>>, FALSE),
                Rule("f", <<ParamSpec("x", instance("Orange"))>>, <<>>, FALSE))

(* Phase A finds no error: every rule with rule types under its name is     *)
(* checked without error and matches one of them.                          *)
PhaseAFindsNoError(k, ord) ==
    \A r \in AllRules(k) :
        TypesOf(k, r) # {} => AllChecksOk(k, ord, r) /\ MatchesOne(k, ord, r)

IsMissingRequiredRule(d) == is_error(d) /\ d.e.kind = "MissingRequiredRule"

(* C12 as the specification states it: for every required rule type that   *)
(* no rule stored under its name matches (none need exist), when Phase A   *)
(* found no error, the diagnostics of validate_rules hold a                *)
(* MissingRequiredRule for that rule type; and a MissingRequiredRule is    *)
(* only ever about a required rule type that no rule implements.           *)
C12_EveryMissingRequiredRule ==
    [][(ret'.op = "validate_rules" /\ ret'.out.ok) =>
         LET ds  == ret'.out.val
             ord == ret'.arg
         IN  /\ \A t \in RequiredTypes(kb) :
                   (PhaseAFindsNoError(kb, ord) /\ ~Implemented(kb, ord, t)) =>
                     \E i \in DOMAIN ds :
                        IsMissingRequiredRule(ds[i]) /\ ds[i].e.rule = t
             /\ \A i \in DOMAIN ds :
                   IsMissingRequiredRule(ds[i]) =>
                     /\ ds[i].e.rule \in RequiredTypes(kb)
                     /\ ~Implemented(kb, ord, ds[i].e.rule)]_vars

(* C13 as the specification states it: validate_rules reports at most one  *)
(* rule-type error per rule and at most one per required rule type, and    *)
(* gathers across rules: every rule that matches none of the rule types    *)
(* of its name has its InvalidRule in the returned diagnostics, and, when  *)
(* Phase A finds no error, every required rule type without               *)
(* implementation has its MissingRequiredRule there.                       *)
C13_GathersAcrossRules ==
    [][(ret'.op = "validate_rules" /\ ret'.out.ok) =>
         LET ds  == ret'.out.val
             ord == ret'.arg
             invalid == {r \in AllRules(kb) :
                            TypesOf(kb, r) # {} /\ ~MatchesOne(kb, ord, r)}
             missing == {t \in RequiredTypes(kb) : ~Implemented(kb, ord, t)}
         IN  /\ \A i, j \in DOMAIN ds :
                   (IsRuleTypeError(ds[i]) /\ IsRuleTypeError(ds[j])
                    /\ ds[i].e.kind = ds[j].e.kind /\ ds[i].e.rule = ds[j].e.rule)
                     => i = j
             /\ (\A r \in AllRules(kb) : AllChecksOk(kb, ord, r)) =>
                   \A r \in invalid :
                      \E i \in DOMAIN ds : IsInvalidRule(ds[i]) /\ ds[i].e.rule = r
             /\ PhaseAFindsNoError(kb, ord) =>
                   Cardinality({i \in DOMAIN ds : IsMissingRequiredRule(ds[i])})
                     = Cardinality(missing)]_vars

IsUndefinedRuleCall(d) == is_error(d) /\ d.e.kind = "UndefinedRuleCall"

(* The body of some rule calls a rule name the knowledge base has no rule  *)
(* for.                                                                    *)
CallsUndefinedRule(k) ==
    \E r \in AllRules(k) : \E j \in DOMAIN r.body :
        r.body[j].t = "Call" /\ r.body[j].name \notin DOMAIN k.rules

(* C14: rule-type validation runs before the check of calls of undefined   *)
(* rules: in the list validate_rules returns no undefined-rule-call        *)
(* diagnostic precedes an InvalidRule or a MissingRequiredRule; so for a   *)
(* knowledge base with a missing required rule and a call of an undefined  *)
(* rule the list holds both and its first error, the one load raises, is   *)
(* the MissingRequiredRule.                                                *)
C14_RuleTypesBeforeCalls ==
    [][(ret'.op = "validate_rules" /\ ret'.out.ok) =>
         LET ds  == ret'.out.val
             ord == ret'.arg
         IN  /\ \A i, j \in DOMAIN ds :
                   (IsUndefinedRuleCall(ds[i]) /\ IsRuleTypeError(ds[j])) => j < i
             /\ (/\ PhaseAFindsNoError(kb, ord)
                 /\ \E t \in RequiredTypes(kb) : ~Implemented(kb, ord, t)
                 /\ CallsUndefinedRule(kb))
                => /\ HasError(ds)
                   /\ FirstError(ds).kind = "MissingRequiredRule"
                   /\ \E i \in DOMAIN ds : IsUndefinedRuleCall(ds[i])]_vars

(* C14, witness: validation has returned a MissingRequiredRule followed by *)
(* the undefined-rule-call error of the rule f(x: Orange) if h().           *)
C14_Witness ==
    /\ ret.op = "validate_rules"
    /\ ret.out.ok
    /\ Len(ret.out.val) = 2
    /\ IsMissingRequiredRule(ret.out.val[1])
    /\ IsUndefinedRuleCall(ret.out.val[2])
    /\ CallsUndefinedRule(kb)

(* C15: a rule-type parameter that is a variable without specializer       *)
(* matches every rule parameter, variable or constant, with any            *)
(* specializer or none; a rule-type parameter that is a variable with a    *)
(* specializer, value or pattern, never matches a rule parameter that is   *)
(* a variable without specializer.                                         *)
C15_MissingSpecializers ==
    ret.op = "check_param" =>
        LET rp == ret.arg.rule_param
            tp == ret.arg.rule_type_param
        IN  /\ (tp.parameter.t = "Variable" /\ tp.specializer = None)
                  => ret.out = Ok(MatchTrue)
            /\ (/\ tp.parameter.t = "Variable" /\ tp.specializer # None
                /\ rp.parameter.t = "Variable" /\ rp.specializer = None)
                  => ret.out.ok /\ ~ret.out.val.m

(* C15, witness: the rule-type parameter x has matched the bare constant 6. *)
C15_Witness ==
    /\ ret.op = "check_param"
    /\ ret.arg.rule_type_param = ParamVar("x")
    /\ ret.arg.rule_param = ParamValue(IntegerV(6))
    /\ ret.out = Ok(MatchTrue)

(* A parameter that is a variable with an instance pattern as specializer. *)
HasInstanceSpecializer(param) ==
    /\ param.parameter.t = "Variable"
    /\ IsPattern(param.specializer)
    /\ param.specializer[1].pattern.p = "Instance"

InstanceOf(param) == param.specializer[1].pattern

(* Every field of T is a field of R with an equal value. *)
FieldsConform(T, R) ==
    \A key \in DOMAIN T.fields :
        key \in DOMAIN R.fields /\ R.fields[key] = T.fields[key]

(* The external instance id registered for the tag of T is an element of   *)
(* the MRO registered for the tag of R.                                    *)
IdInMro(k, R, T) ==
    /\ T.tag \in DOMAIN k.constants
    /\ k.constants[T.tag].t = "ExternalInstance"
    /\ R.tag \in DOMAIN k.mro
    /\ \E i \in DOMAIN k.mro[R.tag] : k.mro[R.tag][i] = k.constants[T.tag].instance_id

(* C16: for instance specializers with different tags of which none is a   *)
(* union, the rule specializer R matches the rule-type specializer T iff   *)
(* the id registered for T.tag is in the MRO registered for R.tag and the  *)
(* fields of T are fields of R with equal values; Orange and Citrus match  *)
(* Fruit, Fruit does not match Citrus; with equal tags the fields alone    *)
(* decide.                                                                 *)
C16_SubclassByMro ==
    (/\ ret.op = "check_param"
     /\ HasInstanceSpecializer(ret.arg.rule_param)
     /\ HasInstanceSpecializer(ret.arg.rule_type_param)) =>
        LET R == InstanceOf(ret.arg.rule_param)
            T == InstanceOf(ret.arg.rule_type_param)
        IN  /\ (R.tag # T.tag /\ ~is_union(kb, R.tag) /\ ~is_union(kb, T.tag))
                  => (ret.out = Ok(MatchTrue) <=> (IdInMro(kb, R, T) /\ FieldsConform(T, R)))
            /\ R.tag = T.tag
                  => (ret.out = Ok(MatchTrue) <=> FieldsConform(T, R))
            /\ (R.tag \in {"Orange", "Citrus"} /\ R.fields = EmptyMap
                                                /\ T = InstanceLiteral("Fruit", EmptyMap))
                  => ret.out = Ok(MatchTrue)
            /\ (R.tag = "Fruit" /\ T.tag = "Citrus")
                  => (ret.out.ok /\ ~ret.out.val.m)

(* C16, witness: f(x: Orange) has matched the rule-type parameter x: Fruit *)
(* on the knowledge base of the test.                                      *)
C16_Witness ==
    /\ kb = ParamsKnowledgeBase
    /\ ret.op = "check_param"
    /\ ret.arg.rule_param = ParamSpec("x", instance("Orange"))
    /\ ret.arg.rule_type_param = ParamSpec("x", instance("Fruit"))
    /\ ret.out = Ok(MatchTrue)

(* An error returned to the caller, as opposed to a panic. *)
IsReturnedError(out) == ~out.ok /\ out.kind # "panic"

(* C17: the subclass check reports its broken preconditions as errors: a   *)
(* rule-type tag that is no registered constant, or is registered as a     *)
(* constant that is no external instance, gives an error, and a rule tag   *)
(* without registered MRO gives an InvalidState error; none of them gives  *)
(* a panic or a plain mismatch.                                            *)
C17_BrokenPreconditionsAreErrors ==
    (/\ ret.op = "check_param"
     /\ HasInstanceSpecializer(ret.arg.rule_param)
     /\ HasInstanceSpecializer(ret.arg.rule_type_param)
     /\ InstanceOf(ret.arg.rule_param).tag # InstanceOf(ret.arg.rule_type_param).tag
     /\ ~is_union(kb, InstanceOf(ret.arg.rule_type_param).tag)) =>
        LET R == InstanceOf(ret.arg.rule_param)
            T == InstanceOf(ret.arg.rule_type_param)
        IN  /\ T.tag \notin DOMAIN kb.constants => IsReturnedError(ret.out)
            /\ (T.tag \in DOMAIN kb.constants /\ kb.constants[T.tag].t # "ExternalInstance")
                  => IsReturnedError(ret.out)
            /\ (/\ T.tag \in DOMAIN kb.constants
                /\ kb.constants[T.tag].t = "ExternalInstance"
                /\ R.tag \notin DOMAIN kb.mro)
                  => (~ret.out.ok /\ ret.out.kind = "InvalidState")

(* The declared members of a union. *)
MembersOf(k, union) ==
    IF union = ACTOR_UNION_NAME THEN k.resource_blocks.actors
    ELSE k.resource_blocks.resources

(* C is a declared member of the union, or the MRO of C contains the       *)
(* instance id of some declared member.                                    *)
MemberOrSubclass(k, C, union) ==
    \/ C.tag \in MembersOf(k, union)
    \/ \E member \in MembersOf(k, union) : IdInMro(k, C, [tag |-> member])

(* The reason carries the hint for a missing actor or resource block.      *)
CarriesHint(msg, C, union) ==
    \E i \in 1..(Len(msg) - 2) :
        /\ msg[i] = IF union = ACTOR_UNION_NAME
                    THEN "\n\n\tPerhaps you meant to add an actor block to the top of your policy, like this:\n\n\t  actor "
                    ELSE "\n\n\tPerhaps you meant to add a resource block to your policy, like this:\n\n\t  resource "
        /\ msg[i + 1] = C.tag
        /\ msg[i + 2] = IF union = ACTOR_UNION_NAME THEN " {}" ELSE " { .. }"

(* C18: when the rule-type specializer tag is a union and the rule         *)
(* specializer tag C is not, the parameter matches iff C is a declared     *)
(* member of the union or the MRO of C contains the instance id of some    *)
(* declared member, and the fields conform; a mismatch reported when C is  *)
(* neither carries the hint for the missing actor or resource block; two   *)
(* distinct unions never match each other.                                 *)
C18_UnionMembers ==
    (/\ ret.op = "check_param"
     /\ HasInstanceSpecializer(ret.arg.rule_param)
     /\ HasInstanceSpecializer(ret.arg.rule_type_param)
     /\ is_union(kb, InstanceOf(ret.arg.rule_type_param).tag)) =>
        LET C == InstanceOf(ret.arg.rule_param)
            T == InstanceOf(ret.arg.rule_type_param)
        IN  /\ ~is_union(kb, C.tag) =>
                  /\ ret.out = Ok(MatchTrue)
                        <=> (MemberOrSubclass(kb, C, T.tag) /\ FieldsConform(T, C))
                  /\ (ret.out.ok /\ ~ret.out.val.m /\ ~MemberOrSubclass(kb, C, T.tag))
                        => CarriesHint(ret.out.val.msg, C, T.tag)
            /\ (is_union(kb, C.tag) /\ C.tag # T.tag)
                  => (ret.out.ok /\ ~ret.out.val.m)

(* The rule parameter carries a value, as a value specializer or as a bare *)
(* constant.                                                               *)
CarriesValue(param) ==
    \/ param.parameter.t = "Variable" /\ param.specializer # None
                                      /\ ~IsPattern(param.specializer)
    \/ param.parameter.t # "Variable" /\ param.specializer = None

ValueOf(param) ==
    IF param.specializer # None THEN param.specializer[1] ELSE param.parameter

(* The synthetic instance pattern of a value. *)
Synthetic(V) ==
    CASE V.t = "String"     -> [p |-> "Instance", tag |-> "String", fields |-> EmptyMap]
      [] V.t = "Integer"    -> [p |-> "Instance", tag |-> "Integer", fields |-> EmptyMap]
      [] V.t = "Float"      -> [p |-> "Instance", tag |-> "Float", fields |-> EmptyMap]
      [] V.t = "Boolean"    -> [p |-> "Instance", tag |-> "Boolean", fields |-> EmptyMap]
      [] V.t = "List"       -> [p |-> "Instance", tag |-> "List", fields |-> EmptyMap]
      [] V.t = "Dictionary" -> [p |-> "Instance", tag |-> "Dictionary", fields |-> V.fields]

(* C19: when the rule-type specializer is an instance pattern and the rule *)
(* parameter carries a value V, the result is that of check_pattern_param  *)
(* on the synthetic instance pattern of V, tagged String, Integer, Float,  *)
(* Boolean, List or Dictionary, the Dictionary with the fields of V and    *)
(* the others without fields: f(x: 6) matches Integer and matches none of  *)
(* Float, String, Boolean, List, Dictionary and Foo, and a primitive value *)
(* never matches a rule type whose specializer has fields.                 *)
C19_ValuesPromoted ==
    (/\ ret.op = "check_param"
     /\ HasInstanceSpecializer(ret.arg.rule_type_param)
     /\ CarriesValue(ret.arg.rule_param)) =>
        LET V == ValueOf(ret.arg.rule_param)
            T == InstanceOf(ret.arg.rule_type_param)
        IN  /\ ret.out = check_pattern_param(kb, ret.arg.ord, 1, Synthetic(V), T)
            /\ (V = IntegerV(6) /\ T = InstanceLiteral("Integer", EmptyMap))
                  => ret.out = Ok(MatchTrue)
            /\ (V = IntegerV(6) /\ T.tag \in {"Float", "String", "Boolean", "List",
                                                "Dictionary", "Foo"})
                  => ret.out # Ok(MatchTrue)
            /\ (V = IntegerV(6) /\ T.tag \in {"Float", "String", "Boolean", "List",
                                                "Dictionary", "Foo"}
                                /\ kb = ParamsKnowledgeBase)
                  => (ret.out.ok /\ ~ret.out.val.m)
            /\ (V.t # "Dictionary" /\ T.fields # EmptyMap)
                  => ret.out # Ok(MatchTrue)
            /\ (V = DictionaryV([id |-> IntegerV(1)]) /\ T.tag = "Dictionary")
                  => ret.out = Ok(MatchTrue)

(* C19, witness: f(x: "hello") has been checked against String{id: 1} and  *)
(* has not matched.                                                        *)
C19_Witness ==
    /\ kb = ParamsKnowledgeBase
    /\ ret.op = "check_param"
    /\ ret.arg.rule_param = ParamValue(StringV("hello"))
    /\ ret.arg.rule_type_param
           = ParamSpec("x", PatternV(InstanceLiteral("String", [id |-> IntegerV(1)])))
    /\ ret.out.ok /\ ~ret.out.val.m

(* The two values check_value_param is called with, when check_param calls *)
(* it: the rule type has a value specializer and the rule carries a value, *)
(* or both parameters are bare constants.                                  *)
ValuesCompared(rule_param, rule_type_param) ==
    \/ /\ rule_type_param.parameter.t = "Variable"
       /\ rule_type_param.specializer # None
       /\ ~IsPattern(rule_type_param.specializer)
       /\ CarriesValue(rule_param)
    \/ /\ rule_type_param.parameter.t # "Variable"
       /\ rule_type_param.specializer = None
       /\ rule_param.parameter.t # "Variable"
       /\ rule_param.specializer = None

ContainsRestVariable(list) == \E i \in DOMAIN list : list[i].t = "RestVariable"

Elements(list) == {list[i] : i \in DOMAIN list}

(* C20: check_value_param on two lists: a rule-type list that contains a   *)
(* rest variable gives a TypeError error, not a mismatch; otherwise the    *)
(* rule list matches iff every element of the rule-type list occurs in the *)
(* rule list, whatever the order and the multiplicity: rule [1,2,3]        *)
(* matches type [1,2] and rule [1,2] does not match type [1,2,3].          *)
C20_ListsBySuperset ==
    (/\ ret.op = "check_param"
     /\ ValuesCompared(ret.arg.rule_param, ret.arg.rule_type_param)
     /\ ValueOf(ret.arg.rule_param).t = "List"
     /\ ValueOf(ret.arg.rule_type_param).t = "List") =>
        LET V_R == ValueOf(ret.arg.rule_param).elems
            V_T == ValueOf(ret.arg.rule_type_param).elems
        IN  /\ ContainsRestVariable(V_T)
                  => (~ret.out.ok /\ ret.out.kind = "TypeError")
            /\ ~ContainsRestVariable(V_T)
                  => /\ ret.out.ok
                     /\ ret.out.val.m <=> Elements(V_T) \subseteq Elements(V_R)
            /\ (/\ V_R = <<IntegerV(1), IntegerV(2), IntegerV(3)>>
                /\ V_T = <<IntegerV(1), IntegerV(2)>>) => ret.out = Ok(MatchTrue)
            /\ (/\ V_R = <<IntegerV(1), IntegerV(2)>>
                /\ V_T = <<IntegerV(1), IntegerV(2), IntegerV(3)>>)
                  => (ret.out.ok /\ ~ret.out.val.m)

(* C20, witness: the rule list [1,2] has matched the rule-type list        *)
(* [2,1,1], which has another order and an element twice.                  *)
C20_Witness ==
    /\ ret.op = "check_param"
    /\ ret.arg.rule_param = ParamSpec("x", ListV(<<IntegerV(1), IntegerV(2)>>))
    /\ ret.arg.rule_type_param
           = ParamSpec("x", ListV(<<IntegerV(2), IntegerV(1), IntegerV(1)>>))
    /\ ret.out = Ok(MatchTrue)

(* A parameter that is a variable with a dictionary pattern as specializer. *)
HasDictionarySpecializer(param) ==
    /\ param.parameter.t = "Variable"
    /\ IsPattern(param.specializer)
    /\ param.specializer[1].pattern.p = "Dictionary"

(* The pairs of parameters whose comparison is dictionary-shaped, with the *)
(* fields the rule type asks for and the fields the rule has.              *)
DictionaryShaped(rule_param, rule_type_param) ==
    \/ /\ HasDictionarySpecializer(rule_type_param)
       /\ HasDictionarySpecializer(rule_param) \/ HasInstanceSpecializer(rule_param)
    \/ /\ HasInstanceSpecializer(rule_type_param)
       /\ InstanceOf(rule_type_param).tag = "Dictionary"
       /\ HasDictionarySpecializer(rule_param)
    \/ /\ ValuesCompared(rule_param, rule_type_param)
       /\ ValueOf(rule_param).t = "Dictionary"
       /\ ValueOf(rule_type_param).t = "Dictionary"

FieldsOf(param) ==
    IF IsPattern(param.specializer) THEN param.specializer[1].pattern.fields
    ELSE ValueOf(param).fields

(* C21: every dictionary-shaped comparison (dictionary pattern against     *)
(* dictionary pattern, dictionary pattern of the rule type against an      *)
(* instance pattern of the rule, instance pattern tagged Dictionary of the *)
(* rule type against a dictionary of the rule, dictionary value against    *)
(* dictionary value) matches iff every key of the rule type's fields is in *)
(* the rule's fields with an equal term; a dictionary specializer of a     *)
(* rule never matches an instance rule type whose tag is not Dictionary.   *)
C21_FieldsSuperset ==
    ret.op = "check_param" =>
        LET rp == ret.arg.rule_param
            tp == ret.arg.rule_type_param
        IN  /\ DictionaryShaped(rp, tp)
                  => /\ ret.out.ok
                     /\ ret.out.val.m <=>
                            \A key \in DOMAIN FieldsOf(tp) :
                                /\ key \in DOMAIN FieldsOf(rp)
                                /\ FieldsOf(rp)[key] = FieldsOf(tp)[key]
            /\ (/\ HasDictionarySpecializer(rp)
                /\ HasInstanceSpecializer(tp)
                /\ InstanceOf(tp).tag # "Dictionary")
                  => (ret.out.ok /\ ~ret.out.val.m)
            /\ (/\ HasInstanceSpecializer(rp)
                /\ HasDictionarySpecializer(tp)
                /\ \E key \in DOMAIN FieldsOf(tp) : key \notin DOMAIN FieldsOf(rp))
                  => (ret.out.ok /\ ~ret.out.val.m)

(* C21, witness: the rule specializer {id: 1, name: "a"} has matched the   *)
(* rule-type specializer {id: 1}.                                          *)
C21_Witness ==
    /\ ret.op = "check_param"
    /\ ret.arg.rule_param
           = ParamSpec("x", PatternV(DictionaryPattern([id |-> IntegerV(1), name |-> StringV("a")])))
    /\ ret.arg.rule_type_param = ParamSpec("x", PatternV(DictionaryPattern([id |-> IntegerV(1)])))
    /\ ret.out = Ok(MatchTrue)

(* The relation tuples (S, name, O) the blocks declare: the block of O      *)
(* declares the relation `name: S`.                                        *)
DeclaredTuples(k) ==
    LET d == k.resource_blocks.declarations
    IN  {tu \in UNION {{<<d[O].relations[name], name, O>> : name \in DOMAIN d[O].relations} :
                          O \in DOMAIN d} : TRUE}

DeclaredRelation(k, O, name, S) ==
    LET d == k.resource_blocks.declarations
    IN  O \in DOMAIN d /\ name \in DOMAIN d[O].relations /\ d[O].relations[name] = S

(* Some shorthand rule traverses the relation (S, name, O): through its    *)
(* `on` clause, as an implier that is a relation on the traversed subject, *)
(* or as an implier relation without `on`.                                 *)
Traversed(k, S, name, O) ==
    LET sr == k.resource_blocks.shorthand_rules
    IN  \E object \in DOMAIN sr : \E j \in DOMAIN sr[object] :
            LET r == sr[object][j]
            IN  \/ /\ r.on # None /\ r.on[1] = name /\ object = O
                   /\ DeclaredRelation(k, O, name, S)
                \/ /\ r.on # None /\ r.implier = name
                   /\ DeclaredRelation(k, object, r.on[1], O)
                   /\ DeclaredRelation(k, O, name, S)
                \/ /\ r.on = None /\ r.implier = name /\ object = O
                   /\ DeclaredRelation(k, O, name, S)

HasRelationType(S, name, O, required) ==
    [name |-> "has_relation",
     params |-> <<[parameter |-> [t |-> "Variable", name |-> "subject"],
                   specializer |-> <<[t |-> "Pattern",
                       pattern |-> [p |-> "Instance", tag |-> S, fields |-> EmptyMap]]>>],
                  [parameter |-> [t |-> "String", s |-> name], specializer |-> <<>>],
                  [parameter |-> [t |-> "Variable", name |-> "object"],
                   specializer |-> <<[t |-> "Pattern",
                       pattern |-> [p |-> "Instance", tag |-> O, fields |-> EmptyMap]]>>]>>,
     body |-> <<>>, required |-> required]

RequiredHasRoleType ==
    [name |-> "has_role",
     params |-> <<[parameter |-> [t |-> "Variable", name |-> "actor"],
                   specializer |-> <<[t |-> "Pattern",
                       pattern |-> [p |-> "Instance", tag |-> "Actor", fields |-> EmptyMap]]>>],
                  [parameter |-> [t |-> "Variable", name |-> "role"],
                   specializer |-> <<[t |-> "Pattern",
                       pattern |-> [p |-> "Instance", tag |-> "String", fields |-> EmptyMap]]>>],
                  [parameter |-> [t |-> "Variable", name |-> "resource"],
                   specializer |-> <<[t |-> "Pattern",
                       pattern |-> [p |-> "Instance", tag |-> "Resource", fields |-> EmptyMap]]>>]>>,
     body |-> <<>>, required |-> TRUE]

(* The rule types of a name the call has added to those of before. *)
AddedTypes(before, after, name) ==
    SubSeq(after.rule_types[name], Len(before.rule_types[name]) + 1,
           Len(after.rule_types[name]))

(* C22: create_resource_specific_rule_types adds exactly one has_relation  *)
(* rule type per declared relation tuple (S, name, O), required iff some   *)
(* shorthand rule traverses the relation and advisory otherwise, and adds  *)
(* the required rule type has_role(actor: Actor, role: String, resource:   *)
(* Resource) iff some resource block declares roles; it adds nothing else. *)
C22_ResourceSpecificRuleTypes ==
    ret.op = "create_resource_specific_rule_types" =>
        LET before    == ret.arg.kb
            relations == AddedTypes(before, kb, "has_relation")
            roles     == AddedTypes(before, kb, "has_role")
        IN  /\ \A name \in DOMAIN before.rule_types :
                  IsPrefix(before.rule_types[name], kb.rule_types[name])
            /\ DOMAIN kb.rule_types = DOMAIN before.rule_types
            /\ \A name \in DOMAIN before.rule_types \ {"has_relation", "has_role"} :
                  kb.rule_types[name] = before.rule_types[name]
            /\ Len(relations) = Cardinality(DeclaredTuples(before))
            /\ \A tu \in DeclaredTuples(before) :
                  \E i \in DOMAIN relations :
                      relations[i] = HasRelationType(tu[1], tu[2], tu[3],
                                         Traversed(before, tu[1], tu[2], tu[3]))
            /\ roles = IF \E O \in DOMAIN before.resource_blocks.declarations :
                              before.resource_blocks.declarations[O].roles # {}
                       THEN <<RequiredHasRoleType>> ELSE <<>>

(* C22, witness: Org declares owner: User, Repo declares parent_org: Org   *)
(* and the rule "writer" if "owner" on "parent_org"; both relations have   *)
(* got a required rule type, and has_role its required rule type.          *)
C22_Witness ==
    /\ ret.op = "create_resource_specific_rule_types"
    /\ \E i \in DOMAIN kb.rule_types["has_relation"] :
          kb.rule_types["has_relation"][i] = HasRelationType("User", "owner", "Org", TRUE)
    /\ \E i \in DOMAIN kb.rule_types["has_relation"] :
          kb.rule_types["has_relation"][i] = HasRelationType("Org", "parent_org", "Repo", TRUE)
    /\ DOMAIN ret.arg.kb.resource_blocks.declarations = {"Org", "Repo"}
    /\ \E i \in DOMAIN kb.rule_types["has_role"] :
          kb.rule_types["has_role"][i] = RequiredHasRoleType

(* What the readers have seen: the observations of the other threads and    *)
(* the knowledge base each load saw at its has_rules check.                *)
Observations ==
    {threads.seen[i] : i \in DOMAIN threads.seen}
    \cup UNION {{threads.call[t].saw[i] : i \in DOMAIN threads.call[t].saw} : t \in Threads}

(* The load of thread t has returned Ok. *)
ReturnedOk(t) ==
    /\ threads.pc[t] = "returned"
    /\ threads.call[t].out[1].ok

(* C23: load is exclusive with respect to readers: diagnostic_load holds    *)
(* the write guard from the registration of its first source until it      *)
(* returns, so a reader only ever sees the knowledge base as the last      *)
(* finished call left it, and never the rules of a load that ends with an  *)
(* error diagnostic.                                                       *)
C23_ReadersSeeNoIntermediateState ==
    /\ \A t \in Threads :
          threads.pc[t] \in {"loading", "validating"} => threads.lock = t
    /\ threads.lock = 0 => kb = threads.committed
    /\ \A seen \in Observations :
          /\ seen.kb = seen.committed
          /\ has_rules(seen.kb) => \E t \in Threads : ReturnedOk(t)

(* C23, witness: a load has put the rule `f() if g();` into the knowledge   *)
(* base and has ended with an error, and a reader has read the knowledge   *)
(* base since: it holds no rule.                                           *)
C23_Witness ==
    /\ \E t \in Threads :
          /\ threads.pc[t] = "returned"
          /\ threads.call[t].sources = <<Source("f() if g();", None)>>
          /\ ~threads.call[t].out[1].ok
          /\ threads.call[t].out[1].kind = "UndefinedRuleCall"
    /\ threads.lock = 0
    /\ threads.seen # <<>>
    /\ threads.seen[1].kb = kb
    /\ ~has_rules(kb)

(* Thread t has passed the guard of load and has not returned. *)
PastGuard(t) == threads.pc[t] \in {"passed", "loading", "validating"}

(* C26: two concurrent calls of Polar::load on a Polar without rules cannot *)
(* both pass the multiple-load guard: at most one of them loads, and no    *)
(* two of them return Ok.                                                  *)
C26_GuardAndLoadAtomic ==
    \A t1, t2 \in Threads :
        t1 # t2 => /\ ~(PastGuard(t1) /\ PastGuard(t2))
                   /\ ~(ReturnedOk(t1) /\ ReturnedOk(t2))

(* C24: used as an iterator, a query returns Some(event) at every call of  *)
(* next until next has returned Ok(Done); at every call after that it      *)
(* returns None and runs no runnable.                                      *)
C24_DoneEndsIteration ==
    ret.op = "next" =>
        IF ret.arg.returned_done
        THEN ret.out = None /\ query.runs = ret.arg.runs
        ELSE ret.out # None /\ query.runs > ret.arg.runs

C24_Witness ==
    /\ ret.op = "next"
    /\ ret.arg.returned_done
    /\ ret.out = None
    /\ query.runs >= 3

(* The runnable on top of a stack of names, the VM under an empty one. *)
TopName(stack) == IF stack = <<>> THEN "vm" ELSE stack[Len(stack)][1]

RunsAt(i) == query.trace[i].what = "run"

EmitsAt(i, ev) ==
    /\ RunsAt(i)
    /\ query.trace[i].event.ok
    /\ query.trace[i].event.val.ev = ev

(* C25: in one call of next_event the runnable that runs is the top of the *)
(* stack, the VM under an empty stack; a Run event pushes its runnable with *)
(* its call id and that runnable runs next; a Done event of a pushed        *)
(* runnable pops it and gives its result, under the call id it was pushed   *)
(* with, to the runnable then on top, which runs next; the caller gets Done *)
(* only from a run under an empty stack, and never None or Run.            *)
C25_RunnableLifecycle ==
    ret.op = "next" =>
        LET tr == query.trace
            below(i) == SubSeq(tr[i].stack, 1, Len(tr[i].stack) - 1)
        IN  /\ \A i \in DOMAIN tr :
                  RunsAt(i) => tr[i].ran = TopName(tr[i].stack)
            /\ \A i \in DOMAIN tr :
                  EmitsAt(i, "Run") =>
                      /\ i < Len(tr)
                      /\ RunsAt(i + 1)
                      /\ tr[i + 1].ran = tr[i].event.val.runnable.name
                      /\ tr[i + 1].stack =
                             Append(tr[i].stack, <<tr[i].event.val.runnable.name,
                                                   tr[i].event.val.call_id>>)
            /\ \A i \in DOMAIN tr :
                  (EmitsAt(i, "Done") /\ tr[i].stack # <<>>) =>
                      IF i = Len(tr)
                      THEN ret.out # None /\ ~ret.out[1].ok
                      ELSE /\ i + 2 <= Len(tr)
                           /\ tr[i + 1] = [what |-> "answer",
                                            to |-> TopName(below(i)),
                                            call_id |-> tr[i].stack[Len(tr[i].stack)][2],
                                            result |-> tr[i].event.val.result]
                           /\ RunsAt(i + 2)
                           /\ tr[i + 2].ran = TopName(below(i))
                           /\ tr[i + 2].stack = below(i)
            /\ (ret.out # None /\ ret.out[1].ok) =>
                  /\ ret.out[1].val.ev \notin {"None", "Run"}
                  /\ ret.out[1].val.ev = "Done" =>
                        /\ tr # <<>>
                        /\ EmitsAt(Len(tr), "Done")
                        /\ tr[Len(tr)].stack = <<>>
                        /\ tr[Len(tr)].event = ret.out[1]

C25_Witness ==
    /\ ret.op = "next"
    /\ ret.out # None /\ ret.out[1].ok /\ ret.out[1].val.ev = "Done"
    /\ \E i, j \in DOMAIN query.trace :
          /\ i < j
          /\ query.trace[i].what = "answer"
          /\ query.trace[i].to = "B" /\ query.trace[i].call_id = 9
          /\ query.trace[j].what = "answer"
          /\ query.trace[j].to = "vm" /\ query.trace[j].call_id = 7

(* A rule parameter written as a bare constant, and its constant. *)
IsBareConstant(param) == param.parameter.t # "Variable" /\ param.specializer = None

(* A rule parameter written as a variable with a value specializer. *)
HasValueSpecializer(param) ==
    /\ param.parameter.t = "Variable"
    /\ param.specializer # None
    /\ ~IsPattern(param.specializer)

(* C27: against a rule-type parameter that is a variable, check_param      *)
(* gives a bare constant v and a variable with value specializer v the     *)
(* same result; against a rule-type parameter that is a bare constant c,   *)
(* the bare constant v gets the result of check_value_param(v, c) and the  *)
(* variable with value specializer v gets a mismatch.                      *)
C27_BareConstantAsValueSpecializer ==
    ret.op = "check_param" =>
        LET rule_param == ret.arg.rule_param
            rule_type_param == ret.arg.rule_type_param
            again(param) == check_param(kb, ret.arg.ord, 1, param, rule_type_param)
        IN  /\ (rule_type_param.parameter.t = "Variable" /\ IsBareConstant(rule_param)) =>
                  ret.out = again(ParamSpec("x", rule_param.parameter))
            /\ (rule_type_param.parameter.t = "Variable" /\ HasValueSpecializer(rule_param)) =>
                  ret.out = again(ParamValue(rule_param.specializer[1]))
            /\ (IsBareConstant(rule_type_param) /\ IsBareConstant(rule_param)) =>
                  ret.out = check_value_param(kb, 1, rule_param.parameter,
                                              rule_type_param.parameter)
            /\ (IsBareConstant(rule_type_param) /\ HasValueSpecializer(rule_param)) =>
                  /\ ret.out.ok
                  /\ ret.out.val # MatchTrue

C27_Witness ==
    /\ ret.op = "check_param"
    /\ ret.arg.rule_param = ParamValue(IntegerV(6))
    /\ ret.arg.rule_type_param = ParamSpec("x", IntegerV(6))
    /\ ret.out = Ok(MatchTrue)

(* validate_rules returned and its diagnostics hold an error of            *)
(* validate_rule_types.                                                    *)
ReportsRuleTypeError(r) ==
    /\ r.ok
    /\ \E i \in DOMAIN r.val :
          is_error(r.val[i]) /\ r.val[i].e.kind # "UndefinedRuleCall"

(* C28: for one content of the knowledge base, validate_rules reports a    *)
(* rule-type error under every order in which the maps and sets are        *)
(* walked, or under none.                                                  *)
C28_ErrorPresenceOrderIndependent ==
    ret.op = "validate_rules" =>
        \A ord \in Orders(kb) :
            ReportsRuleTypeError(validate_rules(kb, ord)) <=> ReportsRuleTypeError(ret.out)

ParamResult(i) ==
    check_param(kb, ret.arg.ord, i, ret.arg.rule.params[i], ret.arg.rule_type.params[i])

(* C30: with different numbers of parameters rule_params_match returns a   *)
(* mismatch, whatever the checks of the parameters would give; with the    *)
(* same number, it returns an error when the check of some parameter ends  *)
(* in one, also when a parameter before it does not match, and otherwise   *)
(* a match when all match and a mismatch with the reason of the first      *)
(* parameter that does not match.                                          *)
C30_AllParametersChecked ==
    ret.op = "rule_params_match_rules" =>
        LET rule == ret.arg.rule
            rule_type == ret.arg.rule_type
            indices == 1..Len(rule.params)
            errors == {i \in indices : ~ParamResult(i).ok}
            failed == {i \in indices : ParamResult(i).ok /\ ~ParamResult(i).val.m}
        IN  IF Len(rule.params) # Len(rule_type.params)
            THEN ret.out.ok /\ ~ret.out.val.m
            ELSE IF errors # {}
            THEN ~ret.out.ok /\ \E i \in errors : ret.out = ParamResult(i)
            ELSE IF failed # {}
            THEN ret.out = Ok(MatchFalse(ParamResult(Min(failed)).val.msg))
            ELSE ret.out = Ok(MatchTrue)

(* The first parameter does not match, the check of the second ends in an  *)
(* error, and the error is returned.                                       *)
C30_Witness ==
    /\ ret.op = "rule_params_match_rules"
    /\ Len(ret.arg.rule.params) = 2
    /\ Len(ret.arg.rule_type.params) = 2
    /\ ParamResult(1).ok /\ ~ParamResult(1).val.m
    /\ ~ParamResult(2).ok
    /\ ret.out = Err("TypeError", <<"Rule types cannot contain *rest variables.">>)

====
